---- MODULE Spec2Model ----
(***************************************************************************)
(* db4sphinx: the DocBook -> docutils converter (dbparser.py) and the      *)
(* DocBook assembly support for Sphinx (ext.py).                           *)
(*                                                                         *)
(* The converter is a depth-first recursive walk (_conv) over an lxml      *)
(* element tree.  It is modelled as a machine with an explicit call stack  *)
(* (frames): one frame per active _conv call, one step per handler entry,  *)
(* per iteration of a child loop and per handler exit.  The docutils       *)
(* output tree is a heap of nodes; "parent += node" appends a reference to *)
(* the parent's child list, as docutils' Element.append does.              *)
(***************************************************************************)
EXTENDS Integers, Sequences, FiniteSets, TLC

VARIABLES
    src,              \* the lxml root element handed to convert_root
    frames,           \* the Python call stack of _conv activations
    status,           \* "idle" | "running" | "done" | "error" | "writing"
    heap,             \* docutils nodes; heap[1] is self.document
    save,             \* self._save
    stack,            \* self._stack
    anchors,          \* self._anchors
    not_handled_ns,   \* self._not_handled_ns
    not_handled_tags, \* self._not_handled_tags
    title_handler,    \* self._title_handler
    listitem_mangle,  \* self._listitem_mangle_fn
    text_mangle,      \* self._text_mangle_fn
    ordered_list_depth, \* self._ordered_list_depth
    current_level,    \* self.current_level
    diags,            \* what document.reporter received, in order
    flushes,          \* history: every flush of self._save by block()
    leaves,           \* history: every Text leaf created, with the transform
                      \* that was pending and the one that was applied
    returned          \* history: the _conv call that returned last; now is
                      \* TRUE in the state that call returned to

VARIABLES
    resources,        \* self.resources: resource id -> document of its file
    descriptions,     \* self.descriptions
    parent_docname,   \* self.parent_docname
    current_docname,  \* self.current_docname
    current_resource, \* self.current_resource
    current_depth,    \* self.current_depth
    modules,          \* self.modules
    info_exists,      \* hasattr(env, 'docbook_assembly_info')
    children,         \* DocbookAssemblyInfo.children
    assemblies,       \* DocbookAssemblyInfo.assemblies
    roots             \* DocbookAssemblyInfo.roots

VARIABLES
    source,           \* the XML file of each document of the project
    docname,          \* env.docname: the document being read
    nconv,            \* how many documents have been read so far
    doctrees,         \* env.get_doctree: the doctree stored for each document
    titles,           \* env.titles and env.longtitles, per document
    resolved,         \* the outcome of replace_placeholders, per document
    hist              \* history: the last operations on the assembly info

objVars == <<heap, save, stack, anchors, not_handled_ns, not_handled_tags,
             title_handler, listitem_mangle, text_mangle, ordered_list_depth,
             current_level, diags, flushes, leaves>>

convVars == <<src, frames, status, returned, objVars>>

asmVars == <<resources, descriptions, parent_docname, current_docname,
             current_resource, current_depth, modules, info_exists, children,
             assemblies, roots>>

envVars == <<source, docname, nconv, doctrees, titles, resolved, hist>>

vars == <<convVars, asmVars, envVars>>

(***************************************************************************)
(* Bounds of the model.                                                    *)
(***************************************************************************)
MaxFootnotes == 2    \* footnotes in one paragraph
MaxListDepth == 3    \* nesting of ordered lists
MaxForeign == 3      \* elements of foreign namespaces in one document
MaxKids == 2         \* children of an unknown wrapper
MaxItems == 2        \* items of an unordered list
MaxParams == 2       \* parameter definitions of a function prototype
MaxTop == 2          \* top-level composition nodes of an assembly
MaxConversions == 3  \* documents read in one run of the build
MaxRecursion == 3    \* nested resolutions before Python gives up
MaxDepth == 4        \* nesting of the elements of an assembly document

(***************************************************************************)
(* Values.  Text is a sequence of one-character strings; Python's None is  *)
(* NoneT for text and "None" for ids, classes and callbacks.               *)
(***************************************************************************)
NoneT == <<"None">>
None == "None"
DOCBOOK == "http://docbook.org/ns/docbook"
SPHINXNS == "https://pypi.python.org/pypi/db4sphinx"

IsSpace(ch) == ch \in {" ", "\n", "\t"}

RECURSIVE lstrip(_)
lstrip(s) == IF s # <<>> /\ IsSpace(Head(s)) THEN lstrip(Tail(s)) ELSE s

RECURSIVE rstrip(_)
rstrip(s) ==
    IF s # <<>> /\ IsSpace(s[Len(s)]) THEN rstrip(SubSeq(s, 1, Len(s) - 1)) ELSE s

strip(s) == rstrip(lstrip(s))

RECURSIVE collapse_spaces(_)
collapse_spaces(s) ==
    IF Len(s) < 2 THEN s
    ELSE IF s[1] = " " /\ s[2] = " " THEN collapse_spaces(Tail(s))
    ELSE <<s[1]>> \o collapse_spaces(Tail(s))

\* the callbacks stored in _text_mangle_fn / _listitem_mangle_fn
ApplyMangle(fn, s) ==
    CASE fn = "strip_bullet" -> lstrip(Tail(s))
      [] fn = "collapse" -> collapse_spaces(s)
      [] OTHER -> s

(***************************************************************************)
(* lxml elements.  kind is "el", "comment" or "pi"; ns is the namespace    *)
(* URI of the tag ("" for none), tag the local name.                       *)
(***************************************************************************)
El(ns, tag, id, text, kids, tail) ==
    [kind |-> "el", ns |-> ns, tag |-> tag, id |-> id, text |-> text,
     kids |-> kids, tail |-> tail, resourceref |-> None, fileref |-> None,
     significance |-> None]

Comment(text, tail) ==
    [kind |-> "comment", ns |-> "", tag |-> "", id |-> "", text |-> text,
     kids |-> <<>>, tail |-> tail, resourceref |-> None, fileref |-> None,
     significance |-> None]

PI(tail) ==
    [kind |-> "pi", ns |-> "", tag |-> "", id |-> "", text |-> NoneT,
     kids |-> <<>>, tail |-> tail, resourceref |-> None, fileref |-> None,
     significance |-> None]

\* str(el.tag)
QTag(el) ==
    IF el.kind = "comment" THEN "<cyfunction Comment>"
    ELSE IF el.ns = "" THEN el.tag ELSE "{" \o el.ns \o "}" \o el.tag

_NSMAP == [n \in {SPHINXNS} |-> "sphinx"]

\* DocbookParser._get_converter: ns = (root.tag[0] == '{')
Ns5(root) == root.kind = "el" /\ root.ns # ""
_ns == IF Ns5(src) THEN DOCBOOK ELSE ""

\* the e_* methods of the converter that this model covers
Handlers == {"e_para", "e_note", "e_footnote", "e_orderedlist", "e_listitem",
             "e_itemizedlist", "e_indexterm",
             "e_glosslist", "e_glossentry", "e_glossterm", "e_glossdef",
             "e_variablelist", "e_varlistentry",
             "e_sphinx_role", "e_sphinx_directive",
             "e_chapter", "e_sect1", "e_sect2", "e_sect3", "e_section", "e_topic",
             "e_title",
             "e_funcsynopsis", "e_funcprototype", "e_funcdef", "e_paramdef",
             "e_parameter",
             "e_literal", "e_assembly", "e_resources", "e_resource",
             "e_structure", "e_module"}

(***************************************************************************)
(* Lines 87-102 of _conv: the tag pushed on _stack, the method name, and   *)
(* whether the element is in a namespace _NSMAP does not know.             *)
(***************************************************************************)
Resolve(el) ==
    LET q == QTag(el) IN
    IF (IF Ns5(src) THEN el.kind = "el" /\ el.ns = DOCBOOK ELSE TRUE)
    THEN \* tag.find(self._ns) == 0
         LET t == IF Ns5(src) THEN el.tag ELSE q
         IN [tag |-> t, method |-> "e_" \o t, foreign |-> FALSE, ns |-> ""]
    ELSE IF el.kind = "el" /\ el.ns # ""
    THEN IF el.ns \in DOMAIN _NSMAP
         THEN [tag |-> q, method |-> "e_" \o _NSMAP[el.ns] \o "_" \o el.tag,
               foreign |-> FALSE, ns |-> el.ns]
         ELSE [tag |-> q, method |-> None, foreign |-> TRUE, ns |-> el.ns]
    ELSE [tag |-> q, method |-> None, foreign |-> FALSE, ns |-> ""]

(***************************************************************************)
(* The converter's mutable fields as one record, so that a handler reads   *)
(* as the sequence of calls it makes.  ret is the value a call returned.   *)
(***************************************************************************)
Cur ==
    [heap |-> heap, save |-> save, stack |-> stack, anchors |-> anchors,
     nh_ns |-> not_handled_ns, nh_tags |-> not_handled_tags,
     title_handler |-> title_handler, listitem_mangle |-> listitem_mangle,
     text_mangle |-> text_mangle, old |-> ordered_list_depth,
     level |-> current_level, diags |-> diags, flushes |-> flushes, leaves |-> leaves,
     ret |-> 0,
     raised |-> FALSE, bullet |-> None,
     resources |-> resources, descriptions |-> descriptions,
     parent_docname |-> parent_docname, current_docname |-> current_docname,
     current_resource |-> current_resource, current_depth |-> current_depth,
     modules |-> modules, info_exists |-> info_exists, children |-> children,
     assemblies |-> assemblies, roots |-> roots]

Commit(c) ==
    /\ heap' = c.heap
    /\ save' = c.save
    /\ stack' = c.stack
    /\ anchors' = c.anchors
    /\ not_handled_ns' = c.nh_ns
    /\ not_handled_tags' = c.nh_tags
    /\ title_handler' = c.title_handler
    /\ listitem_mangle' = c.listitem_mangle
    /\ text_mangle' = c.text_mangle
    /\ ordered_list_depth' = c.old
    /\ current_level' = c.level
    /\ diags' = c.diags
    /\ flushes' = c.flushes
    /\ leaves' = c.leaves
    /\ resources' = c.resources
    /\ descriptions' = c.descriptions
    /\ parent_docname' = c.parent_docname
    /\ current_docname' = c.current_docname
    /\ current_resource' = c.current_resource
    /\ current_depth' = c.current_depth
    /\ modules' = c.modules
    /\ info_exists' = c.info_exists
    /\ children' = c.children
    /\ assemblies' = c.assemblies
    /\ roots' = c.roots

Node(klass, ids, text, org) ==
    [klass |-> klass, ids |-> ids, kids |-> <<>>, text |-> text, att |-> "",
     entries |-> <<>>, org |-> org]

\* klass(): a new node object
Alloc(c, n) == [c EXCEPT !.heap = Append(@, n), !.ret = Len(c.heap) + 1]

\* parent += n
iadd(c, parent, n) == [c EXCEPT !.heap[parent].kids = Append(@, n)]

warning(c, kind, arg) ==
    [c EXCEPT !.diags = Append(@, [sev |-> "warning", kind |-> kind, arg |-> arg])]

info(c, kind, arg) ==
    [c EXCEPT !.diags = Append(@, [sev |-> "info", kind |-> kind, arg |-> arg])]

\* nodes.Text(string), not through self.text
RawText(c, string, org) ==
    [Alloc(c, Node("Text", <<>>, string, org))
     EXCEPT !.leaves = Append(@, [node |-> Len(c.heap) + 1, applied |-> None,
                                  pending |-> c.text_mangle])]

\* DocbookConverter.text
text(c, string, org) ==
    IF c.text_mangle # None
    THEN [Alloc(c, Node("Text", <<>>, ApplyMangle(c.text_mangle, string), org))
          EXCEPT !.text_mangle = None,
                 !.leaves = Append(@, [node |-> Len(c.heap) + 1,
                                       applied |-> c.text_mangle,
                                       pending |-> c.text_mangle])]
    ELSE RawText(c, string, org)

\* parent += self.text(string)
AddText(c, parent, string, org) ==
    LET c1 == text(c, string, org) IN iadd(c1, parent, c1.ret)

\* DocbookConverter.create_node
create_node(c, klass, xml_id, ids, org) ==
    LET i1 == IF xml_id # None /\ xml_id # "" THEN <<xml_id>> ELSE <<>>
        i2 == IF ids # <<>> THEN ids ELSE i1
    IN IF Len(c.anchors) > 0
       THEN Alloc([c EXCEPT !.anchors = <<>>],
                  Node(klass, Append(i2, c.anchors), NoneT, org))
       ELSE Alloc(c, Node(klass, i2, NoneT, org))

\* node without the "no class and no id: use the parent" shortcut
node_always_creates(c, parent, klass, default_klass, xml_id, ids, org) ==
    LET c1 == create_node(c, IF klass # None THEN klass ELSE default_klass,
                          xml_id, ids, org)
    IN iadd(c1, parent, c1.ret)

\* DocbookConverter.node
node(c, parent, klass, default_klass, xml_id, ids, org) ==
    IF xml_id = None /\ klass = None
    THEN [c EXCEPT !.ret = parent]
    ELSE LET c1 == create_node(c, IF klass # None THEN klass ELSE default_klass,
                               xml_id, ids, org)
         IN iadd(c1, parent, c1.ret)

\* el.get(self._id_attrib) or None
IdOrNone(el) == IF el.kind = "el" /\ el.id # "" THEN el.id ELSE None

\* DocbookConverter.create
create(c, el, parent, klass, default_klass, org) ==
    node(c, parent, klass, default_klass, IdOrNone(el), <<>>, org)

\* DocbookConverter.supports_only: one warning per child whose tag is not in
\* tags.  Where the code passes a parenthesised string instead of a tuple the
\* test is a substring test; on the tags of this model the two agree.
RECURSIVE supports_only_from(_, _, _, _)
supports_only_from(c, el, tags, i) ==
    IF i > Len(el.kids) THEN c
    ELSE supports_only_from(
            IF el.kids[i].kind = "el" /\ QTag(el.kids[i]) \in tags THEN c
            ELSE warning(c, "skipped", QTag(el) \o "/" \o QTag(el.kids[i])),
            el, tags, i + 1)

supports_only(c, el, tags) == supports_only_from(c, el, tags, 1)

\* self._ns + name, as lxml spells a qualified tag
NsTag(name) == IF _ns = "" THEN name ELSE "{" \o _ns \o "}" \o name

\* el.findall(tag): the children with that tag; el.find(tag) is the first
findall(el, qtag) == SelectSeq(el.kids, LAMBDA k : k.kind = "el" /\ QTag(k) = qtag)

(***************************************************************************)
(* Frames.  pc = "conv": _conv was called and has not run yet; pc = "kids": *)
(* the handler is inside the child loop of concat_into (mode "concat") or  *)
(* of visit_children (mode "visit"), about to call _conv on child i.  path *)
(* is the position of el in the source tree, entry the converter fields    *)
(* when the call was made (history).                                       *)
(***************************************************************************)
EntryOf(c, parent) ==
    [old |-> c.old, stack |-> c.stack, nkids |-> Len(c.heap[parent].kids),
     nflush |-> Len(c.flushes), nheap |-> Len(c.heap), ndiags |-> Len(c.diags),
     text_mangle |-> c.text_mangle, level |-> c.level]

CallFrame(c, el, path, parent) ==
    [pc |-> "conv", h |-> None, el |-> el, path |-> path, parent |-> parent,
     node |-> 0, i |-> 1, pending |-> NoneT, need_space |-> TRUE, sv |-> None,
     mode |-> "concat", entry |-> EntryOf(c, parent)]

Top == frames[Len(frames)]
InConv == status = "running" /\ frames # <<>> /\ Top.pc = "conv"
InKids == status = "running" /\ frames # <<>> /\ Top.pc = "kids"
AtEnd == InKids /\ Top.i > Len(Top.el.kids)

\* the handler _conv picks for el: getattr(self, method_name), else concat
Dispatch(el) ==
    IF el.kind = "el" /\ Resolve(el).method \in Handlers
    THEN Resolve(el).method ELSE "passthrough"

\* _conv, lines 87-104, for an element or a blank comment
Prolog(c, el) ==
    LET r == Resolve(el)
        c1 == IF r.foreign
              THEN [(IF r.ns \notin c.nh_ns THEN warning(c, "namespace", r.ns)
                     ELSE c)
                    EXCEPT !.nh_tags = @ \cup {QTag(el)}]
              ELSE c
    IN [c1 EXCEPT !.stack = Append(@, r.tag)]

\* _conv, line 112
Epilog(c) == [c EXCEPT !.stack = SubSeq(@, 1, Len(@) - 1)]

\* concat_into, lines 183-186: the loop is entered with el.text pending
Loop(f, h, n, need_space, sv) ==
    [f EXCEPT !.pc = "kids", !.h = h, !.node = n, !.need_space = need_space,
              !.sv = sv, !.i = 1,
              !.pending = IF f.el.text # NoneT /\ ~need_space
                          THEN lstrip(f.el.text) ELSE f.el.text]

\* visit_children: the loop over el.getchildren(), into the handler's parent
Visit(f, h, sv) ==
    [f EXCEPT !.pc = "kids", !.h = h, !.node = f.parent, !.sv = sv, !.i = 1,
              !.mode = "visit", !.pending = NoneT]

\* concat_into, lines 194-198: after the last child
concat_end(c, f) ==
    IF f.pending = NoneT THEN c
    ELSE LET p == IF f.need_space THEN f.pending ELSE rstrip(f.pending)
         IN IF Len(p) > 0 THEN AddText(c, f.node, p, f.path) ELSE c

\* block, lines 216-222: flush the delayed footnotes behind the block
RECURSIVE iadd_all(_, _, _)
iadd_all(c, parent, ns) ==
    IF ns = <<>> THEN c ELSE iadd_all(iadd(c, parent, Head(ns)), parent, Tail(ns))

flush(c, f) ==
    IF Len(c.save) = 0 THEN c
    ELSE [iadd_all(c, f.parent, c.save)
          EXCEPT !.save = <<>>,
                 !.flushes = Append(@, [by |-> f.path, into |-> f.parent,
                                        what |-> c.save])]

\* block, after concat
block_end(c, f) == flush(concat_end(c, f), f)

(***************************************************************************)
(* Call and return.                                                        *)
(***************************************************************************)
\* a return after which the caller's loop stays at the same child
Return_no_advance(c) ==
    LET f == Top
        rest == SubSeq(frames, 1, Len(frames) - 1)
    IN /\ frames' = rest
       /\ status' = IF rest = <<>> THEN "done" ELSE "running"
       /\ returned' = [now |-> TRUE, h |-> f.h, path |-> f.path,
                       parent |-> f.parent, node |-> f.node, entry |-> f.entry,
                       old |-> c.old, stack |-> c.stack]
       /\ Commit(c)

\* the callee's frame is popped; concat_into resumes at lines 192-193
Return(c) ==
    LET f == Top
        rest == SubSeq(frames, 1, Len(frames) - 1)
    IN /\ frames' = IF rest = <<>> THEN rest
                    ELSE [rest EXCEPT ![Len(rest)].pending =
                                          IF rest[Len(rest)].mode = "concat"
                                          THEN f.el.tail ELSE NoneT,
                                      ![Len(rest)].i = @ + 1]
       /\ status' = IF rest = <<>> THEN "done" ELSE "running"
       /\ returned' = [now |-> TRUE, h |-> f.h, path |-> f.path,
                       parent |-> f.parent, node |-> f.node, entry |-> f.entry,
                       old |-> c.old, stack |-> c.stack]
       /\ Commit(c)

\* a handler enters its child loop
Enter(c, h, n, need_space, sv) ==
    /\ frames' = [frames EXCEPT ![Len(frames)] = Loop(Top, h, n, need_space, sv)]
    /\ Commit(c)
    /\ returned' = [returned EXCEPT !.now = FALSE]
    /\ UNCHANGED status

\* a handler enters the loop of visit_children
EnterVisit(c, h, sv) ==
    /\ frames' = [frames EXCEPT ![Len(frames)] = Visit(Top, h, sv)]
    /\ Commit(c)
    /\ returned' = [returned EXCEPT !.now = FALSE]
    /\ UNCHANGED status

\* a handler that calls block or _conv itself, on children it picked: sv is
\* the list of the calls it is going to make, i the next one
Direct(f, h, n, sv) ==
    [f EXCEPT !.pc = "kids", !.h = h, !.node = n, !.sv = sv, !.i = 1,
              !.mode = "direct", !.pending = NoneT]

EnterDirect(c, h, n, sv) ==
    /\ frames' = [frames EXCEPT ![Len(frames)] = Direct(Top, h, n, sv)]
    /\ Commit(c)
    /\ returned' = [returned EXCEPT !.now = FALSE]
    /\ UNCHANGED status

InDirect == InKids /\ Top.mode = "direct"
AtEndDirect == InDirect /\ Top.i > Len(Top.sv)

\* an exception leaves the handler: the conversion of the document stops
Raise(c) ==
    /\ status' = "error"
    /\ Commit(c)
    /\ UNCHANGED <<frames, returned>>

\* concat_into, lines 187-191, and visit_children, lines 210-211: emit the
\* pending text (concat_into only), call _conv on child i
CallChild ==
    /\ InKids /\ Top.mode # "direct" /\ Top.i <= Len(Top.el.kids)
    /\ LET f == Top
           c == IF f.mode = "concat" /\ f.pending # NoneT /\ Len(f.pending) > 0
                THEN AddText(Cur, f.node, f.pending, f.path) ELSE Cur
       IN /\ Commit(c)
          /\ frames' = Append([frames EXCEPT ![Len(frames)].pending = NoneT],
                              CallFrame(c, f.el.kids[f.i], Append(f.path, f.i), f.node))
    /\ returned' = [returned EXCEPT !.now = FALSE]
    /\ UNCHANGED <<src, status, envVars>>

(***************************************************************************)
(* _conv on a processing instruction and on a comment, lines 79-85.        *)
(***************************************************************************)
Conv_PI ==
    /\ InConv /\ Top.el.kind = "pi"
    /\ Return(info(Cur, "pi", ""))
    /\ UNCHANGED <<src, envVars>>

\* DocbookConverter.comment
comment(c, el, parent, org) ==
    LET c1 == Alloc(c, Node("comment", <<>>, el.text, org))
    IN iadd(c1, parent, c1.ret)

Conv_Comment ==
    /\ InConv /\ Top.el.kind = "comment" /\ strip(Top.el.text) # <<>>
    /\ Return(comment(Cur, Top.el, Top.parent, Top.path))
    /\ UNCHANGED <<src, envVars>>

\* an element, or a comment whose text is blank, goes on to the dispatch
Dispatched(h) ==
    /\ InConv
    /\ Top.el.kind = "el" \/ (Top.el.kind = "comment" /\ strip(Top.el.text) = <<>>)
    /\ Dispatch(Top.el) = h

(***************************************************************************)
(* The handlers.  X_begin runs the handler up to its child loop, X_end     *)
(* from the end of the loop to the return of _conv.                        *)
(***************************************************************************)
\* _conv lines 107-111: no handler; warn once per tag and concat(el, parent)
passthrough_begin ==
    /\ Dispatched("passthrough")
    /\ LET f == Top
           c1 == Prolog(Cur, f.el)
           c2 == IF QTag(f.el) \notin c1.nh_tags
                 THEN [warning(c1, "tag", QTag(f.el))
                       EXCEPT !.nh_tags = @ \cup {QTag(f.el)}]
                 ELSE c1
           c3 == create(c2, f.el, f.parent, None, "inline", f.path)
       IN Enter(c3, "passthrough", c3.ret, TRUE, None)
    /\ UNCHANGED <<src, envVars>>

passthrough_end ==
    /\ AtEnd /\ Top.h = "passthrough"
    /\ Return(Epilog(concat_end(Cur, Top)))
    /\ UNCHANGED <<src, envVars>>

\* e_literal: concat(el, parent, nodes.literal)
e_literal_begin ==
    /\ Dispatched("e_literal")
    /\ LET f == Top
           c1 == create(Prolog(Cur, f.el), f.el, f.parent, "literal", "inline", f.path)
       IN Enter(c1, "e_literal", c1.ret, TRUE, None)
    /\ UNCHANGED <<src, envVars>>

e_literal_end ==
    /\ AtEnd /\ Top.h = "e_literal"
    /\ Return(Epilog(concat_end(Cur, Top)))
    /\ UNCHANGED <<src, envVars>>

\* block(el, parent, klass) up to the child loop of its concat
block_begin(c, f, klass) == create(c, f.el, f.parent, klass, "compound", f.path)

\* e_para: block(el, parent, nodes.paragraph)
e_para_begin ==
    /\ Dispatched("e_para")
    /\ LET c1 == block_begin(Prolog(Cur, Top.el), Top, "paragraph")
       IN Enter(c1, "e_para", c1.ret, FALSE, None)
    /\ UNCHANGED <<src, envVars>>

e_para_end ==
    /\ AtEnd /\ Top.h = "e_para"
    /\ Return(Epilog(block_end(Cur, Top)))
    /\ UNCHANGED <<src, envVars>>

\* e_note: block(el, parent, nodes.note)
e_note_begin ==
    /\ Dispatched("e_note")
    /\ LET c1 == block_begin(Prolog(Cur, Top.el), Top, "note")
       IN Enter(c1, "e_note", c1.ret, FALSE, None)
    /\ UNCHANGED <<src, envVars>>

e_note_end ==
    /\ AtEnd /\ Top.h = "e_note"
    /\ Return(Epilog(block_end(Cur, Top)))
    /\ UNCHANGED <<src, envVars>>

\* e_footnote, lines 535-541
e_footnote_enter(c, f) ==
    LET c1 == supports_only(c, f.el, {NsTag("para")})
        c2 == node(c1, f.parent, "footnote_reference", "inline", None, <<>>, f.path)
        c3 == RawText(c2, <<"#">>, f.path)
        c4 == iadd(c3, c2.ret, c3.ret)
    IN create(c4, f.el, f.parent, "footnote", "inline", f.path)

e_footnote_begin ==
    /\ Dispatched("e_footnote")
    /\ LET c1 == e_footnote_enter(Prolog(Cur, Top.el), Top)
       IN Enter(c1, "e_footnote", c1.ret, FALSE, None)
    /\ UNCHANGED <<src, envVars>>

\* e_footnote, lines 541-543
e_footnote_leave(c, f) == [concat_end(c, f) EXCEPT !.save = Append(@, f.node)]

e_footnote_end ==
    /\ AtEnd /\ Top.h = "e_footnote"
    /\ Return(Epilog(e_footnote_leave(Cur, Top)))
    /\ UNCHANGED <<src, envVars>>

\* e_orderedlist, lines 439-441
e_orderedlist_enter(c, f) ==
    LET c1 == supports_only(c, f.el, {NsTag("listitem")})
    IN block_begin([c1 EXCEPT !.old = @ + 1], f, "enumerated_list")

e_orderedlist_begin ==
    /\ Dispatched("e_orderedlist")
    /\ LET c1 == e_orderedlist_enter(Prolog(Cur, Top.el), Top)
       IN Enter(c1, "e_orderedlist", c1.ret, FALSE, None)
    /\ UNCHANGED <<src, envVars>>

\* e_orderedlist that picks the numbering but forgets to leave the level
e_orderedlist_leave_no_decrement(c, f) ==
    LET c1 == block_end(c, f)
    IN [c1 EXCEPT !.heap[f.node].att = IF c1.old = 1 THEN "arabic" ELSE "loweralpha"]

\* e_orderedlist, lines 441-445
e_orderedlist_leave(c, f) ==
    LET c1 == block_end(c, f)
    IN [c1 EXCEPT !.heap[f.node].att = IF c1.old = 1 THEN "arabic" ELSE "loweralpha",
                  !.old = @ - 1]

e_orderedlist_end ==
    /\ AtEnd /\ Top.h = "e_orderedlist"
    /\ Return(Epilog(e_orderedlist_leave(Cur, Top)))
    /\ UNCHANGED <<src, envVars>>

\* e_listitem, lines 448-451
e_listitem_enter(c, f) ==
    block_begin([c EXCEPT !.text_mangle = c.listitem_mangle,
                          !.listitem_mangle = None], f, "list_item")

e_listitem_begin ==
    /\ Dispatched("e_listitem")
    /\ LET c1 == e_listitem_enter(Prolog(Cur, Top.el), Top)
       IN Enter(c1, "e_listitem", c1.ret, FALSE, listitem_mangle)
    /\ UNCHANGED <<src, envVars>>

\* e_listitem, lines 451-452
e_listitem_leave(c, f) == [block_end(c, f) EXCEPT !.listitem_mangle = f.sv]

e_listitem_end ==
    /\ AtEnd /\ Top.h = "e_listitem"
    /\ Return(Epilog(e_listitem_leave(Cur, Top)))
    /\ UNCHANGED <<src, envVars>>

\* e_itemizedlist, line 425: el.find("listitem[1]/para[1]"), as a sequence
\* that is empty for None.  listitem[1] is the first listitem child, and
\* the match is its first para child.
first_item_para(el) ==
    LET items == findall(el, NsTag("listitem"))
    IN IF items = <<>> THEN <<>>
       ELSE LET paras == findall(items[1], NsTag("para"))
            IN IF paras = <<>> THEN <<>> ELSE <<paras[1]>>

\* e_itemizedlist, lines 420-432.  item.text[1] raises TypeError when the
\* para has no text and IndexError when it has fewer than two characters.
e_itemizedlist_enter(c, f) ==
    LET c1 == supports_only(c, f.el, {NsTag("listitem")})
        item == first_item_para(f.el)
    IN IF item # <<>> /\ (item[1].text = NoneT \/ Len(item[1].text) < 2)
       THEN [c1 EXCEPT !.raised = TRUE]
       ELSE IF item # <<>> /\ item[1].text[2] = " "
       THEN [block_begin([c1 EXCEPT !.listitem_mangle = "strip_bullet"], f,
                         "bullet_list")
             EXCEPT !.bullet = item[1].text[1]]
       ELSE [block_begin(c1, f, "bullet_list") EXCEPT !.bullet = "bullet"]

e_itemizedlist_begin ==
    /\ Dispatched("e_itemizedlist")
    /\ LET c1 == e_itemizedlist_enter(Prolog(Cur, Top.el), Top)
       IN IF c1.raised THEN Raise(c1)
          ELSE Enter(c1, "e_itemizedlist", c1.ret, FALSE, c1.bullet)
    /\ UNCHANGED <<src, envVars>>

\* e_itemizedlist, lines 432-436
e_itemizedlist_leave(c, f) ==
    [block_end(c, f) EXCEPT !.heap[f.node].att = f.sv, !.listitem_mangle = None]

e_itemizedlist_end ==
    /\ AtEnd /\ Top.h = "e_itemizedlist"
    /\ Return(Epilog(e_itemizedlist_leave(Cur, Top)))
    /\ UNCHANGED <<src, envVars>>

(***************************************************************************)
(* Sections and titles.                                                    *)
(***************************************************************************)
\* the level each sectioning method passes to _section, lines 336-347 and
\* 358-360: e_topic is rebound to e_chapter at line 360
SectionLevel(h, level) ==
    CASE h = "e_chapter" -> 0
      [] h = "e_sect1" -> 1
      [] h = "e_sect2" -> 2
      [] h = "e_sect3" -> 3
      [] h = "e_section" -> level + 1
      [] h = "e_topic" -> 0

SectionHandlers == {"e_chapter", "e_sect1", "e_sect2", "e_sect3", "e_section", "e_topic"}

\* document.set_id(node): a node without ids gets the next free automatic id
set_id(c, n) ==
    IF c.heap[n].ids # <<>> THEN c
    ELSE LET auto == {m \in DOMAIN c.heap : c.heap[m].att = "auto-id"}
         IN [c EXCEPT !.heap[n].ids = <<"id" \o ToString(Cardinality(auto) + 1)>>,
                      !.heap[n].att = "auto-id"]

\* _section, lines 329-331, up to the child loop of block; the level is
\* computed by the caller, before anything else
_section_enter(c, f, h) ==
    LET sv == [title_handler |-> c.title_handler, level |-> SectionLevel(h, c.level)]
        c1 == block_begin([c EXCEPT !.title_handler = "section_title_handler"],
                          f, "section")
    IN [c1 EXCEPT !.ret = [node |-> c1.ret, sv |-> sv]]

_section_begin ==
    /\ \E h \in SectionHandlers :
         /\ Dispatched(h)
         /\ LET c1 == _section_enter(Prolog(Cur, Top.el), Top, h)
            IN Enter(c1, h, c1.ret.node, FALSE, c1.ret.sv)
    /\ UNCHANGED <<src, envVars>>

\* _section, lines 331-334, after the child loop
_section_leave(c, f) ==
    [set_id([block_end(c, f) EXCEPT !.title_handler = f.sv.title_handler], f.node)
     EXCEPT !.level = f.sv.level]

_section_end ==
    /\ AtEnd /\ Top.h \in SectionHandlers
    /\ Return(Epilog(_section_leave(Cur, Top)))
    /\ UNCHANGED <<src, envVars>>

\* e_title with section_title_handler installed:
\* converter.block(inner_el, inner_parent, nodes.title)
e_title_begin ==
    /\ Dispatched("e_title") /\ title_handler = "section_title_handler"
    /\ LET c1 == block_begin(Prolog(Cur, Top.el), Top, "title")
       IN Enter(c1, "e_title", c1.ret, FALSE, None)
    /\ UNCHANGED <<src, envVars>>

e_title_end ==
    /\ AtEnd /\ Top.h = "e_title"
    /\ Return(Epilog(block_end(Cur, Top)))
    /\ UNCHANGED <<src, envVars>>

\* e_title with no title handler: the title is dropped
e_title_skip ==
    /\ Dispatched("e_title") /\ title_handler = None
    /\ Return(Epilog(Prolog(Cur, Top.el)))
    /\ UNCHANGED <<src, envVars>>

(***************************************************************************)
(* Definition lists.                                                       *)
(***************************************************************************)
\* e_glosslist: supports_only, block(el, parent, nodes.definition_list)
e_glosslist_begin ==
    /\ Dispatched("e_glosslist")
    /\ LET c1 == supports_only(Prolog(Cur, Top.el), Top.el, {NsTag("glossentry")})
           c2 == block_begin(c1, Top, "definition_list")
       IN Enter(c2, "e_glosslist", c2.ret, FALSE, None)
    /\ UNCHANGED <<src, envVars>>

e_glosslist_end ==
    /\ AtEnd /\ Top.h = "e_glosslist"
    /\ Return(Epilog(block_end(Cur, Top)))
    /\ UNCHANGED <<src, envVars>>

\* e_glossentry: supports_only, block(el, parent, nodes.definition_list_item)
e_glossentry_begin ==
    /\ Dispatched("e_glossentry")
    /\ LET c1 == supports_only(Prolog(Cur, Top.el), Top.el,
                               {NsTag("glossterm"), NsTag("glossdef")})
           c2 == block_begin(c1, Top, "definition_list_item")
       IN Enter(c2, "e_glossentry", c2.ret, FALSE, None)
    /\ UNCHANGED <<src, envVars>>

e_glossentry_end ==
    /\ AtEnd /\ Top.h = "e_glossentry"
    /\ Return(Epilog(block_end(Cur, Top)))
    /\ UNCHANGED <<src, envVars>>

\* e_glossterm: block(el, parent, nodes.term)
e_glossterm_begin ==
    /\ Dispatched("e_glossterm")
    /\ LET c1 == block_begin(Prolog(Cur, Top.el), Top, "term")
       IN Enter(c1, "e_glossterm", c1.ret, FALSE, None)
    /\ UNCHANGED <<src, envVars>>

e_glossterm_end ==
    /\ AtEnd /\ Top.h = "e_glossterm"
    /\ Return(Epilog(block_end(Cur, Top)))
    /\ UNCHANGED <<src, envVars>>

\* e_glossdef: block(el, parent, nodes.definition)
e_glossdef_begin ==
    /\ Dispatched("e_glossdef")
    /\ LET c1 == block_begin(Prolog(Cur, Top.el), Top, "definition")
       IN Enter(c1, "e_glossdef", c1.ret, FALSE, None)
    /\ UNCHANGED <<src, envVars>>

e_glossdef_end ==
    /\ AtEnd /\ Top.h = "e_glossdef"
    /\ Return(Epilog(block_end(Cur, Top)))
    /\ UNCHANGED <<src, envVars>>

\* e_variablelist: supports_only, block(el, parent, nodes.definition_list)
e_variablelist_begin ==
    /\ Dispatched("e_variablelist")
    /\ LET c1 == supports_only(Prolog(Cur, Top.el), Top.el, {NsTag("varlistentry")})
           c2 == block_begin(c1, Top, "definition_list")
       IN Enter(c2, "e_variablelist", c2.ret, FALSE, None)
    /\ UNCHANGED <<src, envVars>>

e_variablelist_end ==
    /\ AtEnd /\ Top.h = "e_variablelist"
    /\ Return(Epilog(block_end(Cur, Top)))
    /\ UNCHANGED <<src, envVars>>

\* the positions among el's children of the elements with this tag
indices(el, qtag) ==
    SelectSeq([i \in 1..Len(el.kids) |-> i],
              LAMBDA i : el.kids[i].kind = "el" /\ QTag(el.kids[i]) = qtag)

\* e_varlistentry, lines 464-468: block(term, node, nodes.term) for every
\* term, then block(item, node, nodes.definition) for the first listitem
varlistentry_calls(el) ==
    LET terms == indices(el, NsTag("term"))
        items == indices(el, NsTag("listitem"))
    IN [k \in DOMAIN terms |-> [i |-> terms[k], kind |-> "block", klass |-> "term",
                                pre |-> NoneT]]
       \o (IF items # <<>>
           THEN <<[i |-> items[1], kind |-> "block", klass |-> "definition",
                   pre |-> NoneT]>>
           ELSE <<>>)

\* e_varlistentry up to its first call of block
e_varlistentry_begin ==
    /\ Dispatched("e_varlistentry")
    /\ LET c1 == supports_only(Prolog(Cur, Top.el), Top.el,
                               {NsTag("term"), NsTag("listitem")})
           c2 == create(c1, Top.el, Top.parent, "definition_list_item", "inline",
                        Top.path)
       IN EnterDirect(c2, "e_varlistentry", c2.ret, varlistentry_calls(Top.el))
    /\ UNCHANGED <<src, envVars>>

\* a handler calls self.block(child, node, klass) itself: the child is not
\* dispatched, so nothing of _conv runs for it
CallBlock ==
    /\ InDirect /\ Top.i <= Len(Top.sv) /\ Top.sv[Top.i].kind = "block"
    /\ LET f == Top
           call == f.sv[f.i]
           g == CallFrame(Cur, f.el.kids[call.i], Append(f.path, call.i), f.node)
           c1 == block_begin(Cur, g, call.klass)
       IN /\ Commit(c1)
          /\ frames' = Append(frames, Loop(g, "block", c1.ret, FALSE, None))
    /\ returned' = [returned EXCEPT !.now = FALSE]
    /\ UNCHANGED <<src, status, envVars>>

\* the block called by CallBlock returns to the handler
block_return ==
    /\ AtEnd /\ Top.h = "block"
    /\ Return(block_end(Cur, Top))
    /\ UNCHANGED <<src, envVars>>

e_varlistentry_end ==
    /\ AtEndDirect /\ Top.h = "e_varlistentry"
    /\ Return(Epilog(Cur))
    /\ UNCHANGED <<src, envVars>>

(***************************************************************************)
(* Function synopses.                                                      *)
(***************************************************************************)
\* e_funcsynopsis = block
e_funcsynopsis_begin ==
    /\ Dispatched("e_funcsynopsis")
    /\ LET c1 == block_begin(Prolog(Cur, Top.el), Top, None)
       IN Enter(c1, "e_funcsynopsis", c1.ret, FALSE, None)
    /\ UNCHANGED <<src, envVars>>

e_funcsynopsis_end ==
    /\ AtEnd /\ Top.h = "e_funcsynopsis"
    /\ Return(Epilog(block_end(Cur, Top)))
    /\ UNCHANGED <<src, envVars>>

\* e_funcdef = concat, e_paramdef = concat
e_funcdef_begin ==
    /\ \E h \in {"e_funcdef", "e_paramdef"} :
         /\ Dispatched(h)
         /\ LET c1 == create(Prolog(Cur, Top.el), Top.el, Top.parent, None, "inline",
                             Top.path)
            IN Enter(c1, h, c1.ret, TRUE, None)
    /\ UNCHANGED <<src, envVars>>

e_funcdef_end ==
    /\ AtEnd /\ Top.h \in {"e_funcdef", "e_paramdef"}
    /\ Return(Epilog(concat_end(Cur, Top)))
    /\ UNCHANGED <<src, envVars>>

\* e_parameter: the transform that collapses runs of spaces is installed,
\* then concat with emphasis inside a paramdef and literal elsewhere;
\* self._stack[-2] raises IndexError when the parameter is the root
e_parameter_enter(c, f) ==
    IF Len(c.stack) < 2 THEN [c EXCEPT !.raised = TRUE]
    ELSE create([c EXCEPT !.text_mangle = "collapse"], f.el, f.parent,
                IF c.stack[Len(c.stack) - 1] = "paramdef" THEN "emphasis" ELSE "literal",
                "inline", f.path)

e_parameter_begin ==
    /\ Dispatched("e_parameter")
    /\ LET c1 == e_parameter_enter(Prolog(Cur, Top.el), Top)
       IN IF c1.raised THEN Raise(c1) ELSE Enter(c1, "e_parameter", c1.ret, TRUE, None)
    /\ UNCHANGED <<src, envVars>>

e_parameter_end ==
    /\ AtEnd /\ Top.h = "e_parameter"
    /\ Return(Epilog(concat_end(Cur, Top)))
    /\ UNCHANGED <<src, envVars>>

\* e_funcprototype, lines 664-672: _conv(funcdef, parent), then for every
\* paramdef the text "(" or ", " and _conv(paramdef, parent)
funcprototype_calls(el) ==
    LET funcdef == indices(el, NsTag("funcdef"))
        paramdefs == indices(el, NsTag("paramdef"))
    IN <<[i |-> funcdef[1], kind |-> "conv", klass |-> None, pre |-> NoneT]>>
       \o [k \in DOMAIN paramdefs |->
             [i |-> paramdefs[k], kind |-> "conv", klass |-> None,
              pre |-> IF k = 1 THEN <<"(">> ELSE <<",", " ">>]]

\* e_funcprototype up to its first call of _conv; without a funcdef child
\* _conv(None, parent) raises AttributeError
e_funcprototype_begin ==
    /\ Dispatched("e_funcprototype")
    /\ LET c1 == supports_only(Prolog(Cur, Top.el), Top.el,
                               {NsTag("funcdef"), NsTag("paramdef")})
       IN IF indices(Top.el, NsTag("funcdef")) = <<>>
          THEN Raise(c1)
          ELSE EnterDirect(c1, "e_funcprototype", Top.parent,
                           funcprototype_calls(Top.el))
    /\ UNCHANGED <<src, envVars>>

\* a handler emits a text and calls self._conv(child, parent) itself
CallConv ==
    /\ InDirect /\ Top.i <= Len(Top.sv) /\ Top.sv[Top.i].kind = "conv"
    /\ LET f == Top
           call == f.sv[f.i]
           c == IF call.pre # NoneT THEN AddText(Cur, f.node, call.pre, f.path) ELSE Cur
       IN /\ Commit(c)
          /\ frames' = Append(frames, CallFrame(c, f.el.kids[call.i],
                                                Append(f.path, call.i), f.node))
    /\ returned' = [returned EXCEPT !.now = FALSE]
    /\ UNCHANGED <<src, status, envVars>>

\* e_funcprototype, line 673: parent += self.text(")")
e_funcprototype_end ==
    /\ AtEndDirect /\ Top.h = "e_funcprototype"
    /\ Return(Epilog(AddText(Cur, Top.node, <<")">>, Top.path)))
    /\ UNCHANGED <<src, envVars>>

(***************************************************************************)
(* Index terms.  A string is a sequence of characters.                     *)
(***************************************************************************)
\* ids += xml_id extends the list by the characters of the id; the ids of
\* this model's elements are kept whole
Chars(id) == <<id>>

\* str.lower() on the values the significance attribute takes here
Lower(s) == IF s = "Preferred" THEN "preferred" ELSE s

\* DocbookConverter.no_markup_text: (text, need_space), and the ids list it
\* extends in place
RECURSIVE no_markup_text(_, _, _)
RECURSIVE no_markup_kids(_, _, _)
no_markup_text(el, ids, need_space) ==
    LET ids1 == IF el.id # "" THEN ids \o Chars(el.id) ELSE ids
        r == IF el.text # NoneT
             THEN [text |-> el.text, need_space |-> ~IsSpace(el.text[Len(el.text)]),
                   ids |-> ids1]
             ELSE [text |-> <<>>, need_space |-> need_space, ids |-> ids1]
    IN no_markup_kids(el, r, 1)

no_markup_kids(el, r, i) ==
    IF i > Len(el.kids) THEN r
    ELSE LET k == el.kids[i]
             ch == no_markup_text(k, r.ids, r.need_space)
             tail == IF k.tail = NoneT THEN <<>>
                     ELSE IF ~ch.need_space THEN lstrip(k.tail) ELSE k.tail
         IN no_markup_kids(el,
                [text |-> r.text \o ch.text \o tail,
                 need_space |-> IF Len(tail) > 0 THEN ~IsSpace(tail[Len(tail)])
                                ELSE ch.need_space,
                 ids |-> ch.ids],
                i + 1)

\* DocbookConverter.inline_text as e_indexterm calls it: the ids list is
\* passed in the place of xml_id, so a non-empty list becomes the one id
inline_text(c, string, parent, inline_class, xml_id, org) ==
    LET c1 == node(c, parent, "inline", "inline", None,
                   IF xml_id # <<>> THEN <<xml_id>> ELSE <<>>, org)
        n == c1.ret
        c2 == IF inline_class # None THEN [c1 EXCEPT !.heap[n].att = inline_class]
              ELSE c1
    IN [AddText(c2, n, string, org) EXCEPT !.ret = n]

\* '<%s: %s; %s>' % (term, pri, see)
Entry(term, pri, sec) ==
    <<"<">> \o term \o <<":", " ">> \o pri \o <<";", " ">> \o sec \o <<">">>

See == <<"s", "e", "e">>
SeeAlso == <<"s", "e", "e", "a", "l", "s", "o">>
Single == <<"s", "i", "n", "g", "l", "e">>

\* e_indexterm, lines 587-592: one pass of the loop over ('see', 'seealso')
see_term(r, el, parent, term, name, pri, org) ==
    LET see_el == findall(el, NsTag(name))
    IN IF see_el = <<>> THEN r
       ELSE LET see == no_markup_text(see_el[1], r.ids, FALSE)
            IN [c |-> inline_text(r.c, Entry(term, pri, see.text), parent, "index",
                                  see.ids, org),
                ids |-> see.ids]

\* DocbookConverter.e_indexterm; got stays False, so line 594 never returns
index_entry(c, el, parent, org) ==
    LET c1 == supports_only(c, el, {NsTag("primary"), NsTag("secondary"),
                                    NsTag("see"), NsTag("seealso")})
        pri_el == findall(el, NsTag("primary"))
    IN IF pri_el = <<>> THEN warning(c1, "indexterm", "no primary")
       ELSE LET pri == no_markup_text(pri_el[1], <<>>, FALSE)
                r1 == see_term([c |-> c1, ids |-> pri.ids], el, parent, See, "see",
                               pri.text, org)
                r2 == see_term(r1, el, parent, SeeAlso, "seealso", pri.text, org)
                sec_el == findall(el, NsTag("secondary"))
                sec == IF sec_el # <<>> THEN no_markup_text(sec_el[1], r2.ids, FALSE)
                       ELSE [text |-> <<>>, need_space |-> FALSE, ids |-> r2.ids]
                p1 == IF sec_el # <<>> THEN Entry(Single, pri.text, sec.text)
                      ELSE pri.text
                p2 == IF Lower(IF el.significance = None THEN ""
                               ELSE el.significance) = "preferred"
                      THEN <<"!", " ">> \o p1 ELSE p1
            IN inline_text(r2.c, p2, parent, "index", sec.ids, org)

e_indexterm ==
    /\ Dispatched("e_indexterm")
    /\ Return(Epilog(index_entry(Prolog(Cur, Top.el), Top.el, Top.parent, Top.path)))
    /\ UNCHANGED <<src, envVars>>

(***************************************************************************)
(* ext.py: roles and directives of reStructuredText run for the elements   *)
(* sphinx:role and sphinx:directive.  What the macro does is not the       *)
(* converter's: it returns nodes or it raises.                             *)
(***************************************************************************)
MacroOutcomes == {"nodes", "raises"}

\* _run_role / _run_directive: parent += state_machine.run_...(name, ...);
\* nothing catches what the call raises
run_macro(c, parent, outcome, org) ==
    IF outcome = "raises" THEN [c EXCEPT !.raised = TRUE]
    ELSE LET c1 == Alloc(c, Node("macro_output", <<>>, NoneT, org))
         IN iadd(c1, parent, c1.ret)

\* e_sphinx_role: _run_role(parent, name, options=attrs, content=el.text)
e_sphinx_role ==
    /\ Dispatched("e_sphinx_role")
    /\ \E outcome \in MacroOutcomes :
         LET c1 == run_macro(Prolog(Cur, Top.el), Top.parent, outcome, Top.path)
         IN IF c1.raised THEN Raise(c1) ELSE Return(Epilog(c1))
    /\ UNCHANGED <<src, envVars>>

\* e_sphinx_directive: _run_directive(parent, name, arguments, attrs, el.text)
e_sphinx_directive ==
    /\ Dispatched("e_sphinx_directive")
    /\ \E outcome \in MacroOutcomes :
         LET c1 == run_macro(Prolog(Cur, Top.el), Top.parent, outcome, Top.path)
         IN IF c1.raised THEN Raise(c1) ELSE Return(Epilog(c1))
    /\ UNCHANGED <<src, envVars>>

(***************************************************************************)
(* ext.py: DocbookAssemblyInfo and the assembly handlers of                *)
(* SphinxDocbookConverter.  A dict is a function; d[k] = v is Put.         *)
(***************************************************************************)
Put(d, k, v) == [x \in DOMAIN d \cup {k} |-> IF x = k THEN v ELSE d[x]]
Del(d, k) == [x \in DOMAIN d \ {k} |-> d[x]]


\* DocbookAssemblyInfo.add_child; children is a defaultdict(list)
add_child(c, parent, child, description) ==
    [c EXCEPT !.children =
        Put(@, parent, Append(IF parent \in DOMAIN @ THEN @[parent] ELSE <<>>,
                              <<description, child>>))]

\* push_module, lines 202-213, once the document of the resource is known
push_state(c, resourceref, doc) ==
    LET c1 == IF c.modules # NoneT
              THEN [c EXCEPT !.modules = Append(@, resourceref)] ELSE c
    IN [c1 EXCEPT !.ret = [parent_docname |-> c.parent_docname,
                           current_resource |-> c.current_resource,
                           modules |-> c1.modules],
                  !.parent_docname = c.current_docname,
                  !.current_docname = doc,
                  !.current_resource = resourceref,
                  !.current_depth = @ + 1,
                  !.modules = <<>>]

\* push_module with self.resources.get(resourceref): no KeyError
push_module_unchecked(c, resourceref) ==
    push_state(c, resourceref,
               IF resourceref \in DOMAIN c.resources THEN c.resources[resourceref]
               ELSE None)

\* SphinxDocbookConverter.push_module; self.resources[resourceref] raises
\* KeyError for a resource that was not declared.  env.path2doc(filename)
\* is the document e_resource stored.
push_module(c, resourceref) ==
    IF resourceref \notin DOMAIN c.resources
    THEN [c EXCEPT !.raised = TRUE]
    ELSE push_state(c, resourceref, c.resources[resourceref])

\* SphinxDocbookConverter.pop_module
pop_module(c, state) ==
    [c EXCEPT !.current_depth = @ - 1,
              !.current_docname = c.parent_docname,
              !.parent_docname = state.parent_docname,
              !.current_resource = state.current_resource,
              !.modules = state.modules]

\* SphinxDocbookConverter.include_resource
include_resource(c, parent, org) ==
    LET c1 == IF c.current_depth = 1
              THEN [c EXCEPT !.assemblies = Put(@, c.parent_docname, c.current_docname),
                             !.roots = @ \cup {c.current_docname}]
              ELSE c
        c2 == Alloc(c1, [Node("resource_placeholder", <<c.current_resource>>, NoneT, org)
                         EXCEPT !.att = c.current_docname])
    IN iadd(c2, parent, c2.ret)

\* e_assembly
e_assembly_begin ==
    /\ Dispatched("e_assembly")
    /\ LET f == Top
           c1 == [Prolog(Cur, f.el) EXCEPT !.info_exists = TRUE]
           c2 == IF IdOrNone(f.el) # None
                 THEN [c1 EXCEPT !.heap[f.parent].ids = Append(@, f.el.id)] ELSE c1
       IN EnterVisit(c2, "e_assembly", None)
    /\ UNCHANGED <<src, envVars>>

e_assembly_end ==
    /\ AtEnd /\ Top.h = "e_assembly"
    /\ Return(Epilog(Cur))
    /\ UNCHANGED <<src, envVars>>

\* e_resources
e_resources_begin ==
    /\ Dispatched("e_resources")
    /\ EnterVisit(Prolog(Cur, Top.el), "e_resources", None)
    /\ UNCHANGED <<src, envVars>>

e_resources_end ==
    /\ AtEnd /\ Top.h = "e_resources"
    /\ Return(Epilog(Cur))
    /\ UNCHANGED <<src, envVars>>

\* e_resource: env.path2doc(filename) is written for the file name
declare_resource(c, el) ==
    LET d == findall(el, NsTag("description"))
        c1 == [c EXCEPT !.resources = Put(@, el.id, el.fileref)]
    IN IF d # <<>> THEN [c1 EXCEPT !.descriptions = Put(@, el.id, d[1].text)] ELSE c1

e_resource ==
    /\ Dispatched("e_resource")
    /\ Return(Epilog(declare_resource(Prolog(Cur, Top.el), Top.el)))
    /\ UNCHANGED <<src, envVars>>

\* e_module, lines 278-288
e_module_enter(c, f) ==
    LET ref == f.el.resourceref
        c1 == push_module(c, ref)
        c2 == IF ref \in DOMAIN c1.descriptions
              THEN add_child(c1, c1.parent_docname, c1.current_docname,
                             c1.descriptions[ref])
              ELSE c1
        c3 == IF c2.current_depth <= 2 THEN include_resource(c2, f.parent, f.path)
              ELSE c2
    IN IF c1.raised THEN c1 ELSE [c3 EXCEPT !.ret = c1.ret]

e_module_begin ==
    /\ Dispatched("e_module")
    /\ LET c1 == e_module_enter(Prolog(Cur, Top.el), Top)
       IN IF c1.raised THEN Raise(c1) ELSE EnterVisit(c1, "e_module", c1.ret)
    /\ UNCHANGED <<src, envVars>>

e_module_end ==
    /\ AtEnd /\ Top.h = "e_module"
    /\ Return(Epilog(pop_module(Cur, Top.sv)))
    /\ UNCHANGED <<src, envVars>>

\* e_structure, lines 235-253
e_structure_enter(c, f) ==
    LET c1 == push_module(c, f.el.resourceref)
        c2 == include_resource(c1, f.parent, f.path)
        c3 == Alloc(c2, [Node("toctree", <<>>, NoneT, f.path) EXCEPT !.att = "hidden"])
        c4 == iadd(c3, f.parent, c3.ret)
        c5 == Alloc(c4, Node("bullet_list", <<>>, NoneT, f.path))
        c6 == Alloc(c5, Node("compound", <<>>, NoneT, f.path))
        c7 == iadd(iadd(c6, c6.ret, c5.ret), f.parent, c6.ret)
    IN IF c1.raised THEN c1
       ELSE [c7 EXCEPT !.ret = [state |-> c1.ret, tocnode |-> c3.ret,
                                toclist |-> c5.ret]]

e_structure_begin ==
    /\ Dispatched("e_structure")
    /\ LET c1 == e_structure_enter(Prolog(Cur, Top.el), Top)
       IN IF c1.raised THEN Raise(c1) ELSE EnterVisit(c1, "e_structure", c1.ret)
    /\ UNCHANGED <<src, envVars>>

\* e_structure, lines 256-273: one bullet and one toctree entry per module
\* of this level that has a description
RECURSIVE list_modules(_, _, _, _)
list_modules(c, f, sv, k) ==
    IF k > Len(c.modules) THEN c
    ELSE LET ref == c.modules[k] IN
         IF ref \notin DOMAIN c.descriptions THEN list_modules(c, f, sv, k + 1)
         ELSE LET c1 == Alloc(c, [Node("reference", <<>>, NoneT, f.path)
                                  EXCEPT !.att = ref])
                  c2 == RawText(c1, c.descriptions[ref], f.path)
                  c3 == Alloc(iadd(c2, c1.ret, c2.ret),
                              Node("compact_paragraph", <<>>, NoneT, f.path))
                  c4 == Alloc(iadd(c3, c3.ret, c1.ret),
                              Node("list_item", <<>>, NoneT, f.path))
                  c5 == iadd(iadd(c4, c4.ret, c3.ret), sv.toclist, c4.ret)
                  c6 == [c5 EXCEPT !.heap[sv.tocnode].entries =
                            Append(@, <<c.descriptions[ref], c.resources[ref]>>)]
              IN list_modules(c6, f, sv, k + 1)

e_structure_end ==
    /\ AtEnd /\ Top.h = "e_structure"
    /\ Return(Epilog(pop_module(list_modules(Cur, Top, Top.sv, 1), Top.sv.state)))
    /\ UNCHANGED <<src, envVars>>

(***************************************************************************)
(* The Sphinx build around the converter.  Reading phase: for every        *)
(* document it reads, Sphinx emits env-purge-doc and then parses it.  Then *)
(* env-updated is emitted once, and in the writing phase doctree-resolved  *)
(* for every document written.                                             *)
(***************************************************************************)
Graph(c) == [children |-> c.children, assemblies |-> c.assemblies, roots |-> c.roots]

\* the last three operations on the assembly info, newest last
Logged(h, entry) == IF Len(h) < 3 THEN Append(h, entry) ELSE Append(Tail(h), entry)

\* DocbookAssemblyInfo.purge: roots.remove raises KeyError when the top
\* resource of docname is not (any more) in roots
purge(g, d) ==
    IF d \in DOMAIN g.assemblies /\ g.assemblies[d] \notin g.roots
    THEN [g EXCEPT !.raised = TRUE]
    ELSE LET g1 == IF d \in DOMAIN g.assemblies
                   THEN [g EXCEPT !.roots = @ \ {g.assemblies[d]},
                                  !.assemblies = Del(@, d)]
                   ELSE g
         IN [g1 EXCEPT !.children =
                [key \in DOMAIN @ |-> SelectSeq(@[key], LAMBDA x : x[2] # d)]]

\* purge_assembly_structure, the env-purge-doc callback
purge_assembly_structure(c, d) == IF c.info_exists THEN purge(c, d) ELSE c

\* SphinxDocbookConverter.__init__ and DocbookConverter.__init__
FreshConverter(c) ==
    [c EXCEPT !.heap = <<Node("document", <<>>, NoneT, <<>>)>>,
              !.save = <<>>, !.stack = <<>>, !.anchors = <<>>,
              !.nh_ns = {}, !.nh_tags = {}, !.title_handler = None,
              !.listitem_mangle = None, !.text_mangle = None, !.old = 0,
              !.level = 0, !.diags = <<>>, !.flushes = <<>>, !.leaves = <<>>,
              !.resources = <<>>, !.descriptions = <<>>,
              !.parent_docname = None, !.current_docname = None,
              !.current_resource = None, !.current_depth = 0,
              !.modules = NoneT]

\* Sphinx reads document d: env-purge-doc, clear_doc, then the parser and
\* convert_root up to its call of _conv
read_doc(d) ==
    /\ status = "idle" /\ nconv < MaxConversions
    /\ LET g == purge_assembly_structure(Cur, d)
           c == [FreshConverter(g) EXCEPT !.current_docname = d]
       IN /\ hist' = IF Cur.info_exists
                     THEN Logged(hist, [op |-> "purge", doc |-> d,
                                        before |-> Graph(Cur), after |-> Graph(g),
                                        raised |-> g.raised])
                     ELSE hist
          /\ IF g.raised
             THEN /\ Commit(g)
                  /\ status' = "error"
                  /\ UNCHANGED <<src, frames, docname, nconv, doctrees, titles>>
             ELSE /\ Commit(c)
                  /\ frames' = <<CallFrame(c, source[d], <<>>, 1)>>
                  /\ src' = source[d]
                  /\ docname' = d
                  /\ nconv' = nconv + 1
                  /\ status' = "running"
                  /\ doctrees' = Del(doctrees, d)
                  /\ titles' = Del(titles, d)
    /\ returned' = [returned EXCEPT !.now = FALSE]
    /\ UNCHANGED <<source, resolved>>

\* a document was deleted from the project: Sphinx emits env-purge-doc for
\* it (purge_assembly_structure), forgets what it stored for it and does not
\* read it again
remove_doc(d) ==
    /\ status = "idle"
    /\ LET g == purge_assembly_structure(Cur, d)
       IN /\ hist' = IF Cur.info_exists
                     THEN Logged(hist, [op |-> "purge", doc |-> d,
                                        before |-> Graph(Cur), after |-> Graph(g),
                                        raised |-> g.raised])
                     ELSE hist
          /\ Commit(g)
          /\ IF g.raised
             THEN /\ status' = "error"
                  /\ UNCHANGED <<source, doctrees, titles>>
             ELSE /\ status' = "idle"
                  /\ source' = Del(source, d)
                  /\ doctrees' = Del(doctrees, d)
                  /\ titles' = Del(titles, d)
    /\ returned' = [returned EXCEPT !.now = FALSE]
    /\ UNCHANGED <<src, frames, docname, nconv, resolved>>

\* DocbookAssemblyInfo.create_toctree
create_toctree(c, d) ==
    IF d \in c.roots \/ d \notin DOMAIN c.children THEN c
    ELSE LET c1 == Alloc(c, [Node("toctree", <<>>, NoneT, <<>>)
                             EXCEPT !.entries = c.children[d]])
             c2 == Alloc(c1, Node("compound", <<>>, NoneT, <<>>))
         IN iadd(iadd(c2, c2.ret, c1.ret), 1, c2.ret)

\* the title and long title Sphinx collects from a document's own content
OwnTitle(d) == [title |-> "title of " \o d, longtitle |-> "long title of " \o d]

\* convert_root after _conv returned, lines 115-118; Sphinx then stores the
\* doctree and the titles of the document
convert_root_end ==
    /\ status = "done"
    /\ LET c0 == [Cur EXCEPT !.current_docname = None]
           c == IF c0.info_exists THEN create_toctree(c0, docname) ELSE c0
       IN /\ Commit(c)
          /\ doctrees' = Put(doctrees, docname, c.heap)
          /\ hist' = Logged(hist, [op |-> "convert", doc |-> docname,
                                   before |-> Graph(Cur), after |-> Graph(c),
                                   raised |-> FALSE])
    /\ titles' = Put(titles, docname, OwnTitle(docname))
    /\ status' = "idle"
    /\ UNCHANGED <<src, frames, returned, source, docname, nconv, resolved>>

\* the orders in which a dict can hand out its keys
Orders(S) ==
    {o \in [1..Cardinality(S) -> S] : \A i, j \in DOMAIN o : o[i] = o[j] => i = j}

\* DocbookAssemblyInfo.title_from_top_resource, following one order of
\* assemblies.items(); env.titles[top] raises KeyError for an unknown top
RECURSIVE title_from_top_resource(_, _, _, _)
title_from_top_resource(t, asm, order, k) ==
    IF k > Len(order) THEN [titles |-> t, raised |-> FALSE]
    ELSE IF asm[order[k]] \notin DOMAIN t THEN [titles |-> t, raised |-> TRUE]
    ELSE title_from_top_resource(Put(t, order[k], t[asm[order[k]]]), asm, order, k + 1)

\* process_assemblies_env, the env-updated callback: every document has
\* been read, the writing phase follows
process_assemblies_env ==
    /\ status = "idle" /\ DOMAIN source \subseteq DOMAIN doctrees
    /\ \E order \in Orders(DOMAIN assemblies) :
          LET r == IF info_exists
                   THEN title_from_top_resource(titles, assemblies, order, 1)
                   ELSE [titles |-> titles, raised |-> FALSE]
          IN /\ titles' = r.titles
             /\ status' = IF r.raised THEN "error" ELSE "writing"
    /\ UNCHANGED <<src, frames, returned, objVars, asmVars, source, docname, nconv,
                   doctrees, resolved, hist>>

(***************************************************************************)
(* replace_placeholders.  The trees it works on live in one store of node  *)
(* objects: env.get_doctree unpickles a fresh tree into it, deepcopy adds  *)
(* new objects.  log records, per placeholder, what was done (history).    *)
(***************************************************************************)
\* env.get_doctree(d): a fresh copy of the stored tree; ret is its root
get_doctree(w, d) ==
    LET off == Len(w.heap)
        t == doctrees[d]
    IN [w EXCEPT !.heap = @ \o [i \in 1..Len(t) |->
                                   [t[i] EXCEPT !.kids = [j \in 1..Len(@) |-> @[j] + off]]],
                 !.ret = off + 1]

\* Node.traverse: the nodes below and including n, in document order
RECURSIVE traverse(_, _)
traverse_all(h, ns) ==
    LET F[k \in 0..Len(ns)] == IF k = 0 THEN <<>> ELSE F[k - 1] \o traverse(h, ns[k])
    IN F[Len(ns)]
traverse(h, n) == <<n>> \o traverse_all(h, h[n].kids)

\* root += node without a copy: the node itself
deepcopy_shared(w, n) == [w EXCEPT !.ret = n]

\* Element.deepcopy: a new object for n and for everything below it.  The
\* docname of a placeholder is a Python attribute, which copy() drops.
RECURSIVE deepcopy(_, _)
deepcopy_all(w, ns) ==
    LET F[k \in 0..Len(ns)] ==
            IF k = 0 THEN [w EXCEPT !.ret = <<>>]
            ELSE LET w1 == deepcopy(F[k - 1], ns[k])
                 IN [w1 EXCEPT !.ret = Append(F[k - 1].ret, w1.ret)]
    IN F[Len(ns)]
deepcopy(w, n) ==
    LET w1 == deepcopy_all(w, w.heap[n].kids)
    IN Alloc(w1, [w.heap[n] EXCEPT !.kids = w1.ret,
                                   !.att = IF w.heap[n].klass = "resource_placeholder"
                                           THEN "" ELSE @])

\* Element.update_basic_atts for ids: append the ids that are not there yet
append_attr_list(ids, values) ==
    ids \o SelectSeq(values, LAMBDA v : \A i \in DOMAIN ids : ids[i] # v)

\* docutils Element.replace_self(new) with a list: the first new node takes
\* over the ids of the node replaced; when there is no such element the call
\* asserts that no id is lost.  Then parent.replace(self, new).
replace_self(w, p, new) ==
    IF new = <<>> \/ w.heap[new[1]].klass = "Text"
    THEN IF w.heap[p].ids # <<>> THEN [w EXCEPT !.raised = TRUE]
         ELSE w
    ELSE LET q == CHOOSE q \in DOMAIN w.heap :
                     \E i \in DOMAIN w.heap[q].kids : w.heap[q].kids[i] = p
             i == CHOOSE i \in DOMAIN w.heap[q].kids :
                     /\ w.heap[q].kids[i] = p
                     /\ \A j \in 1..(i - 1) : w.heap[q].kids[j] # p
             ks == w.heap[q].kids
         IN [w EXCEPT !.heap[new[1]].ids = append_attr_list(@, w.heap[p].ids),
                      !.heap[q].kids = SubSeq(ks, 1, i - 1) \o new
                                       \o SubSeq(ks, i + 1, Len(ks))]

\* the tree below n as a value: what the tree says, apart from which objects
\* say it
RECURSIVE Value(_, _)
Value(h, n) ==
    [klass |-> h[n].klass, ids |-> h[n].ids, text |-> h[n].text, att |-> h[n].att,
     entries |-> h[n].entries,
     kids |-> [k \in 1..Len(h[n].kids) |-> Value(h, h[n].kids[k])]]

\* DocbookAssemblyInfo.replace_placeholders on the tree at root.
\* env.resolve_references(target_doctree, ...) ends by emitting
\* doctree-resolved for the target tree, which runs replace_placeholders on
\* it; Python stops a recursion that does not end.
RECURSIVE replace_placeholders(_, _, _)
replace_each(w, ps, depth) ==
    LET F[k \in 0..Len(ps)] ==
          IF k = 0 THEN w
          ELSE LET w0 == F[k - 1]
                   p == ps[k]
                   target == w0.heap[p].att
               IN IF w0.raised THEN w0
                  ELSE IF target \notin DOMAIN doctrees
                  THEN [w0 EXCEPT !.raised = TRUE]
                  ELSE LET w1 == get_doctree(w0, target)
                           troot == w1.ret
                           w2 == replace_placeholders(w1, troot, depth + 1)
                           w3 == deepcopy_all(w2, w2.heap[troot].kids)
                           w4 == replace_self(w3, p, w3.ret)
                       IN IF w2.raised THEN w2
                          ELSE [w4 EXCEPT !.log = Append(@,
                                   [depth |-> depth, placeholder |-> p,
                                    target |-> target, troot |-> troot,
                                    copies |-> w3.ret,
                                    before |-> Value(w2.heap, troot)])]
    IN F[Len(ps)]
replace_placeholders(w, root, depth) ==
    IF depth > MaxRecursion THEN [w EXCEPT !.raised = TRUE]
    ELSE replace_each(w, SelectSeq(traverse(w.heap, root),
                                   LAMBDA n : w.heap[n].klass = "resource_placeholder"),
                      depth)

\* process_assemblies_doctrees, the doctree-resolved callback, when Sphinx
\* writes document d
process_assemblies_doctrees(d) ==
    /\ status = "writing" /\ d \in DOMAIN doctrees /\ d \notin DOMAIN resolved
    /\ LET w0 == get_doctree([heap |-> <<>>, ret |-> 0, raised |-> FALSE, log |-> <<>>], d)
           w == IF info_exists THEN replace_placeholders(w0, w0.ret, 1) ELSE w0
       IN /\ resolved' = Put(resolved, d, [heap |-> w.heap, root |-> w0.ret,
                                           log |-> w.log, raised |-> w.raised])
          /\ status' = IF w.raised THEN "error" ELSE "writing"
    /\ UNCHANGED <<src, frames, returned, objVars, asmVars, source, docname, nconv,
                   doctrees, titles, hist>>

(***************************************************************************)
(* The documents converted: every document of four bounded families, in    *)
(* the DocBook 4 dialect (no namespace) and the DocBook 5 dialect.         *)
(***************************************************************************)
Dialects == {"", DOCBOOK}

\* sequences over S of length lo..hi
SeqsOf(S, lo, hi) == UNION {[1..n -> S] : n \in lo..hi}

\* paragraphs holding footnotes
FootnoteBodies(P) ==
    { El(P, "footnote", "", <<"f">>, <<>>, NoneT),
      El(P, "footnote", "", NoneT, <<El(P, "para", "", <<"x">>, <<>>, NoneT)>>, NoneT),
      El(P, "footnote", "", NoneT,
         <<El(P, "para", "", <<"y">>,
              <<El(P, "footnote", "", <<"g">>, <<>>, NoneT)>>, NoneT)>>, <<"t">>) }

FootnoteParas(P) ==
    { El(P, "para", "", <<"p">>, fs, NoneT) :
        fs \in SeqsOf(FootnoteBodies(P), 0, MaxFootnotes) }

FootnoteDocs(P) ==
    FootnoteParas(P)
    \cup { El(P, "note", "", NoneT, <<p>>, NoneT) : p \in FootnoteParas(P) }
    \cup { El(P, "note", "", NoneT,
              <<p, El(P, "para", "", <<"q">>, <<>>, NoneT)>>, NoneT) :
             p \in FootnoteParas(P) }

\* nested ordered lists
RECURSIVE Lists(_, _)
Lists(P, d) ==
    IF d = 0 THEN { El(P, "para", "", <<"i">>, <<>>, NoneT) }
    ELSE LET inner == Lists(P, d - 1)
             flat == Lists(P, IF d > 1 THEN 1 ELSE 0)
             LI(x) == El(P, "listitem", "", NoneT, x, NoneT)
         IN { El(P, "orderedlist", "", NoneT, <<LI(<<x>>)>>, NoneT) : x \in inner }
            \cup { El(P, "orderedlist", "", NoneT, <<LI(<<x, y>>), LI(<<y>>)>>, NoneT) :
                     x \in inner, y \in flat }

ListDocs(P) == UNION { Lists(P, d) : d \in 1..MaxListDepth }

\* elements of namespaces the converter does not know
ForeignKids ==
    { El("urn:x1", "a", "", <<"u">>, <<>>, NoneT),
      El("urn:x1", "b", "", NoneT, <<>>, NoneT),
      El("urn:x2", "a", "", NoneT, <<>>, <<"v">>),
      El(SPHINXNS, "nosuch", "", NoneT, <<>>, NoneT) }

ForeignDocs(P) ==
    { El(P, "para", "", NoneT, ks, NoneT) : ks \in SeqsOf(ForeignKids, 1, MaxForeign) }

\* an element without handler around text and children
WrapperKids(P) ==
    { El(P, "literal", "", <<"l">>, <<>>, <<"t">>),
      El(P, "literal", "k1", <<"m">>, <<>>, NoneT),
      El(P, "para", "", <<"p">>, <<>>, <<" ">>),
      El(P, "nosuchtag", "", <<"n">>, <<>>, <<>>),
      Comment(<<"c">>, NoneT),
      PI(<<"s">>) }

Wrappers(P) ==
    { El(P, "wrapper", id, t, ks, NoneT) :
        id \in {"", "w1"}, t \in {NoneT, <<"a">>, <<" ">>},
        ks \in SeqsOf(WrapperKids(P), 0, MaxKids) }

WrapperDocs(P) ==
    Wrappers(P)
    \cup { El(P, "para", "", <<"h">>, <<w>>, NoneT) : w \in Wrappers(P) }

\* unordered lists of one or two items; the text of the first item's first
\* paragraph decides about the bullet
ItemParas(P) ==
    { El(P, "para", "", t, <<>>, NoneT) :
        t \in {<<"-", " ", "a">>, <<"A", " ", "b">>, <<"a", "b">>, <<"x">>} }
    \cup { El(P, "para", "", NoneT,
              <<El(P, "footnote", "", NoneT,
                   <<El(P, "para", "", <<"f">>, <<>>, NoneT)>>, <<"r">>)>>, NoneT) }

ItemizedDocs(P) ==
    { El(P, "itemizedlist", "", NoneT,
         [k \in DOMAIN ps |-> El(P, "listitem", "", NoneT, <<ps[k]>>, NoneT)], NoneT) :
        ps \in SeqsOf(ItemParas(P), 1, MaxItems) }
    \cup { El(P, "itemizedlist", "", NoneT,
              <<El(P, "listitem", "", <<"t">>, <<>>, NoneT)>>, NoneT) }

\* index terms: every choice of primary, secondary, see and seealso children,
\* with and without significance="preferred", inside a paragraph
IndexKids(P) ==
    { pr \o se \o sa \o sc :
        pr \in {<<>>, <<El(P, "primary", "", <<"P">>, <<>>, NoneT)>>},
        se \in {<<>>, <<El(P, "see", "", <<"T">>, <<>>, NoneT)>>},
        sa \in {<<>>, <<El(P, "seealso", "", <<"U">>, <<>>, NoneT)>>},
        sc \in {<<>>, <<El(P, "secondary", "", <<"S">>, <<>>, NoneT)>>} }

IndexDocs(P) ==
    { El(P, "para", "", <<"p">>,
         <<[El(P, "indexterm", "", NoneT, ks, NoneT) EXCEPT !.significance = sg]>>,
         NoneT) :
        ks \in IndexKids(P), sg \in {None, "preferred", "Preferred"} }

\* definition-style entries with every count of terms and definitions the
\* claims distinguish: none, one and two
EntryKids(term, def) ==
    {<<>>, <<term>>, <<def>>, <<term, def>>, <<term, term, def>>,
     <<term, def, def>>, <<def, def>>}

DefinitionDocs(P) ==
    LET d == <<El(P, "para", "", <<"d">>, <<>>, NoneT)>>
    IN { El(P, "variablelist", "", NoneT, <<El(P, "varlistentry", "", NoneT, ks, NoneT)>>,
            NoneT) :
           ks \in EntryKids(El(P, "term", "", <<"t">>, <<>>, NoneT),
                            El(P, "listitem", "", NoneT, d, NoneT)) }
       \cup { El(P, "glosslist", "", NoneT, <<El(P, "glossentry", "", NoneT, ks, NoneT)>>,
                 NoneT) :
                ks \in EntryKids(El(P, "glossterm", "", <<"g">>, <<>>, NoneT),
                                 El(P, "glossdef", "", NoneT, d, NoneT)) }

\* a paragraph with bridged elements between its texts
MacroKids ==
    { El(SPHINXNS, "role", "", <<"a">>, <<>>, <<"t">>),
      El(SPHINXNS, "directive", "", NoneT, <<>>, <<"u">>) }

MacroDocs(P) ==
    { El(P, "para", "", <<"p">>, ks, NoneT) : ks \in SeqsOf(MacroKids, 1, MaxKids) }

\* a chapter or a section holding one or two sections of any kind, each with
\* a title; and a title outside every section
SectionTags == {"chapter", "sect1", "sect2", "sect3", "section", "topic"}

SectionDocs(P) ==
    LET title == El(P, "title", "", <<"T">>, <<>>, NoneT)
        sec(tag, ks) == El(P, tag, "", NoneT, <<title>> \o ks, NoneT)
    IN { sec(root, [k \in DOMAIN tags |-> sec(tags[k], <<>>)]) :
           root \in {"chapter", "section"}, tags \in SeqsOf(SectionTags, 1, MaxKids) }
       \cup { sec("section", <<sec("section", <<sec("topic", <<>>)>>)>>),
              El(P, "para", "", NoneT, <<title>>, NoneT) }

\* comments, blank and not, and processing instructions between the texts of
\* a paragraph and in front of the first paragraph of a list item
CommentKids ==
    { Comment(<<" ">>, <<"t">>), Comment(<<"c">>, <<"u">>), PI(<<"s">>) }

CommentDocs(P) ==
    { El(P, "para", "", <<"p">>, ks, NoneT) : ks \in SeqsOf(CommentKids, 1, MaxKids) }
    \cup { El(P, "itemizedlist", "", NoneT,
              <<El(P, "listitem", "", NoneT,
                   <<k, El(P, "para", "", <<"-", " ", "a">>, <<>>, NoneT)>>, NoneT)>>,
              NoneT) : k \in {Comment(<<" ">>, NoneT), Comment(<<"c">>, NoneT)} }

\* function prototypes with a funcdef and zero to MaxParams paramdefs, one
\* prototype without a funcdef, and a parameter outside a paramdef
ParamDefs(P) ==
    { El(P, "paramdef", "", <<"a">>, <<>>, NoneT),
      El(P, "paramdef", "", <<"i", " ">>,
         <<El(P, "parameter", "", <<"x", " ", " ", "y">>, <<>>, NoneT)>>, NoneT) }

FuncDocs(P) ==
    { El(P, "funcsynopsis", "", NoneT,
         <<El(P, "funcprototype", "", NoneT, fd \o ps, NoneT)>>, NoneT) :
        fd \in {<<El(P, "funcdef", "", <<"f">>, <<>>, NoneT)>>},
        ps \in SeqsOf(ParamDefs(P), 0, MaxParams) }
    \cup { El(P, "funcsynopsis", "", NoneT,
              <<El(P, "funcprototype", "", NoneT,
                   <<El(P, "paramdef", "", <<"a">>, <<>>, NoneT)>>, NoneT)>>, NoneT),
           El(P, "para", "", NoneT,
              <<El(P, "parameter", "", <<"x">>, <<>>, NoneT)>>, NoneT),
           El(P, "parameter", "", <<"x">>, <<>>, NoneT) }

Documents ==
    UNION { FootnoteDocs(P) \cup ListDocs(P) \cup ForeignDocs(P) \cup WrapperDocs(P)
            \cup ItemizedDocs(P) \cup IndexDocs(P)
            \cup DefinitionDocs(P) \cup MacroDocs(P)
            \cup SectionDocs(P) \cup CommentDocs(P)
            \cup FuncDocs(P) :
            P \in Dialects }

(***************************************************************************)
(* Assembly documents (DocBook 5).  A declares r1 -> B and r2 -> C, B      *)
(* declares r1 -> A and r2 -> C; rX is declared nowhere.                   *)
(***************************************************************************)
Asm(tag, id, resourceref, fileref, kids) ==
    [El(DOCBOOK, tag, id, NoneT, kids, NoneT)
     EXCEPT !.resourceref = resourceref, !.fileref = fileref]

description(t) == El(DOCBOOK, "description", "", t, <<>>, NoneT)
resource(id, fileref, kids) == Asm("resource", id, None, fileref, kids)
module(ref, kids) == Asm("module", "", ref, None, kids)
structure(ref, kids) == Asm("structure", "", ref, None, kids)
assembly(res, tops) ==
    Asm("assembly", "", None, None, <<Asm("resources", "", None, None, res)>> \o tops)

ResourcesA == <<resource("r1", "B", <<description(<<"b">>)>>),
                resource("r2", "C", <<description(<<"c">>)>>)>>
ResourcesB == <<resource("r1", "A", <<description(<<"a">>)>>),
                resource("r2", "C", <<>>)>>

TopNodes ==
    {module("r1", <<>>), module("r2", <<>>), module("rX", <<>>),
     structure("r2", <<>>), structure("rX", <<>>),
     structure("r1", <<module("r2", <<module("r1", <<>>)>>)>>),
     structure("r2", <<module("rX", <<>>)>>)}

ADocs == {assembly(ResourcesA, tops) : tops \in SeqsOf(TopNodes, 1, MaxTop)}
BDocs == {assembly(ResourcesB, tops) :
             tops \in {<<>>, <<module("r2", <<>>)>>, <<module("r1", <<>>)>>}}

(***************************************************************************)
(* DocbookParser.parse: a fresh converter (__init__, lines 35-66), then    *)
(* convert_root(root), which calls _conv(root, self.document).             *)
(***************************************************************************)
ConverterInit ==
    /\ heap = <<Node("document", <<>>, NoneT, <<>>)>>
    /\ save = <<>>
    /\ stack = <<>>
    /\ anchors = <<>>
    /\ not_handled_ns = {}
    /\ not_handled_tags = {}
    /\ title_handler = None
    /\ listitem_mangle = None
    /\ text_mangle = None
    /\ ordered_list_depth = 0
    /\ current_level = 0
    /\ diags = <<>>
    /\ flushes = <<>>
    /\ leaves = <<>>
    /\ resources = <<>>
    /\ descriptions = <<>>
    /\ parent_docname = None
    /\ current_resource = None
    /\ current_depth = 0
    /\ modules = NoneT

\* no _conv call has returned yet
NothingReturned ==
    returned = [now |-> FALSE, h |-> None, path |-> <<>>, parent |-> 1, node |-> 0,
                entry |-> EntryOf(Cur, 1), old |-> 0, stack |-> <<>>]

\* no assembly has been seen by this environment
NoAssemblyInfo ==
    /\ info_exists = FALSE
    /\ children = <<>>
    /\ assemblies = <<>>
    /\ roots = {}

\* one document, converted on its own
Init ==
    /\ src \in Documents
    /\ ConverterInit
    /\ NoAssemblyInfo
    /\ current_docname = "index"
    /\ status = "running"
    /\ frames = <<CallFrame(Cur, src, <<>>, 1)>>
    /\ NothingReturned
    /\ source = [d \in {"index"} |-> src]
    /\ docname = "index"
    /\ nconv = 1
    /\ doctrees = <<>>
    /\ titles = <<>>
    /\ resolved = <<>>
    /\ hist = <<>>

\* the tree and the titles Sphinx has stored for the plain document C
PlainTree ==
    <<[Node("document", <<>>, NoneT, <<>>) EXCEPT !.kids = <<2>>],
      [Node("paragraph", <<>>, NoneT, <<>>) EXCEPT !.kids = <<3>>],
      Node("Text", <<>>, <<"c">>, <<>>)>>

\* a project of two assembly documents A and B and the plain document C,
\* before Sphinx reads A and B
InitAsm ==
    /\ source \in {[d \in {"A", "B"} |-> IF d = "A" THEN a ELSE b] :
                      a \in ADocs, b \in BDocs}
    /\ src = source["A"]
    /\ ConverterInit
    /\ NoAssemblyInfo
    /\ current_docname = None
    /\ status = "idle"
    /\ frames = <<>>
    /\ NothingReturned
    /\ docname = None
    /\ nconv = 0
    /\ doctrees = [d \in {"C"} |-> PlainTree]
    /\ titles = [d \in {"C"} |-> OwnTitle("C")]
    /\ resolved = <<>>
    /\ hist = <<>>

Next ==
    \/ CallChild
    \/ Conv_PI
    \/ Conv_Comment
    \/ passthrough_begin
    \/ passthrough_end
    \/ e_literal_begin
    \/ e_literal_end
    \/ e_para_begin
    \/ e_para_end
    \/ e_note_begin
    \/ e_note_end
    \/ e_footnote_begin
    \/ e_footnote_end
    \/ e_orderedlist_begin
    \/ e_orderedlist_end
    \/ e_listitem_begin
    \/ e_listitem_end
    \/ e_itemizedlist_begin
    \/ e_itemizedlist_end
    \/ e_indexterm
    \/ e_glosslist_begin
    \/ e_glosslist_end
    \/ e_glossentry_begin
    \/ e_glossentry_end
    \/ e_glossterm_begin
    \/ e_glossterm_end
    \/ e_glossdef_begin
    \/ e_glossdef_end
    \/ e_variablelist_begin
    \/ e_variablelist_end
    \/ e_varlistentry_begin
    \/ CallBlock
    \/ block_return
    \/ e_varlistentry_end
    \/ e_sphinx_role
    \/ e_sphinx_directive
    \/ _section_begin
    \/ _section_end
    \/ e_title_begin
    \/ e_title_end
    \/ e_title_skip
    \/ e_funcsynopsis_begin
    \/ e_funcsynopsis_end
    \/ e_funcdef_begin
    \/ e_funcdef_end
    \/ e_parameter_begin
    \/ e_parameter_end
    \/ e_funcprototype_begin
    \/ CallConv
    \/ e_funcprototype_end

Spec == Init /\ [][Next]_vars

\* the build of a project with assemblies
NextAsm ==
    \/ \E d \in DOMAIN source : read_doc(d)
    \/ CallChild
    \/ e_assembly_begin
    \/ e_assembly_end
    \/ e_resources_begin
    \/ e_resources_end
    \/ e_resource
    \/ e_structure_begin
    \/ e_structure_end
    \/ e_module_begin
    \/ e_module_end
    \/ convert_root_end
    \/ process_assemblies_env
    \/ \E d \in DOMAIN source : process_assemblies_doctrees(d)

SpecAsm == InitAsm /\ [][NextAsm]_vars

\* the steps of one conversion: parse runs convert_root to its end on one
\* thread, so a conversion that can take a step does take it
ConvStep ==
    \/ CallChild
    \/ e_assembly_begin
    \/ e_assembly_end
    \/ e_resources_begin
    \/ e_resources_end
    \/ e_resource
    \/ e_structure_begin
    \/ e_structure_end
    \/ e_module_begin
    \/ e_module_end

\* the projects whose document A has one top-level composition node
InitLive == InitAsm /\ Len(source["A"].kids) = 2

\* a build in which documents are read, read again and deleted
NextPurge ==
    \/ \E d \in DOMAIN source : read_doc(d)
    \/ ConvStep
    \/ convert_root_end
    \/ \E d \in DOMAIN source : remove_doc(d)

SpecPurge == InitLive /\ [][NextPurge]_vars

\* a conversion that is running can take a step
RunningCanStep == status = "running" => ENABLED ConvStep

\* weak fairness of ConvStep, WF_vars(ConvStep), written out with what
\* ENABLED <<ConvStep>>_vars comes to: every ConvStep has the guard
\* status = "running" and changes frames, and RunningCanStep is the converse
SpecAsmLive ==
    /\ InitLive /\ [][NextAsm]_vars
    /\ ([]<>(status # "running") \/ []<><<ConvStep>>_vars)

(***************************************************************************)
(* Reading the source tree and the output tree.                            *)
(***************************************************************************)
RECURSIVE ElAt(_, _)
ElAt(el, path) == IF path = <<>> THEN el ELSE ElAt(el.kids[Head(path)], Tail(path))

\* the paths of all elements of the tree el, el itself at <<>>
RECURSIVE PathsIn(_)
PathsIn(el) ==
    {<<>>} \cup UNION { { <<i>> \o q : q \in PathsIn(el.kids[i]) } :
                        i \in 1..Len(el.kids) }

IsPrefix(p, q) == Len(p) <= Len(q) /\ SubSeq(q, 1, Len(p)) = p

\* the proper ancestors of the element at path, as paths
Ancestors(path) == { SubSeq(path, 1, n) : n \in 0..(Len(path) - 1) }

\* the children of el that _conv hands to handler h, in document order
KidsOf(el, h) ==
    SelectSeq([i \in 1..Len(el.kids) |-> i], LAMBDA i : Dispatch(el.kids[i]) = h)

\* what the call that returned last appended to its output parent
Appended ==
    SubSeq(heap[returned.parent].kids, returned.entry.nkids + 1,
           Len(heap[returned.parent].kids))

\* the flushes of _save made during the call that returned last
FlushedDuring == SubSeq(flushes, returned.entry.nflush + 1, Len(flushes))

Positions ==
    UNION { { <<m, k>> : k \in 1..Len(heap[m].kids) } : m \in 1..Len(heap) }

\* at how many places of the output tree node n sits
Occurrences(n) == Cardinality({ p \in Positions : heap[p[1]].kids[p[2]] = n })

RECURSIVE Below(_, _)
Below(m, fuel) ==
    IF fuel = 0 THEN {}
    ELSE LET ks == { heap[m].kids[k] : k \in 1..Len(heap[m].kids) }
         IN ks \cup UNION { Below(k, fuel - 1) : k \in ks }

Descendants(m) == Below(m, Len(heap))

(***************************************************************************)
(* C1.  A paragraph (outside any footnote) whose children are footnotes,   *)
(* each with a para in its body: when its conversion returns, what was     *)
(* appended to the paragraph's parent is the paragraph followed by its     *)
(* footnotes in reference order, and _save was flushed exactly once, by    *)
(* that paragraph.                                                         *)
(***************************************************************************)
FootnoteBlockReturned ==
    /\ returned.now /\ returned.h = "e_para"
    /\ \A a \in Ancestors(returned.path) : Dispatch(ElAt(src, a)) # "e_footnote"
    /\ LET el == ElAt(src, returned.path)
       IN /\ KidsOf(el, "e_footnote") # <<>>
          /\ \A i \in 1..Len(el.kids) :
                Dispatch(el.kids[i]) = "e_footnote"
                => /\ KidsOf(el.kids[i], "e_para") # <<>>
                   /\ \A q \in PathsIn(el.kids[i]) :
                        q # <<>> => Dispatch(ElAt(el.kids[i], q)) # "e_footnote"

C1_FootnotesFollowBlockOnce ==
    FootnoteBlockReturned =>
        LET fk == KidsOf(ElAt(src, returned.path), "e_footnote")
        IN /\ Len(Appended) = 1 + Len(fk)
           /\ Appended[1] = returned.node
           /\ \A k \in 1..Len(fk) :
                /\ heap[Appended[k + 1]].klass = "footnote"
                /\ heap[Appended[k + 1]].org = Append(returned.path, fk[k])
           /\ Len(FlushedDuring) = 1
           /\ FlushedDuring[1].by = returned.path

(***************************************************************************)
(* C2.  When the conversion of a paragraph that holds footnotes returns,   *)
(* each footnote node sits at exactly one place of the output tree, among  *)
(* the siblings appended behind the paragraph and not below the paragraph, *)
(* and no output node sits at two places.                                  *)
(***************************************************************************)
C2_FootnoteAtOnePosition ==
    (/\ returned.now /\ returned.h = "e_para"
     /\ \A a \in Ancestors(returned.path) : Dispatch(ElAt(src, a)) # "e_footnote"
     /\ KidsOf(ElAt(src, returned.path), "e_footnote") # <<>>)
    => /\ \A n \in 1..Len(heap) :
            (heap[n].klass = "footnote" /\ Len(heap[n].org) = Len(returned.path) + 1
             /\ IsPrefix(returned.path, heap[n].org))
            => /\ Occurrences(n) = 1
               /\ \E k \in 2..Len(Appended) : Appended[k] = n
               /\ n \notin Descendants(returned.node)
       /\ \A n \in 1..Len(heap) : Occurrences(n) <= 1

(***************************************************************************)
(* C8.  At the end of a conversion run, every namespace used in the        *)
(* document that is neither the document's own namespace nor a key of      *)
(* _NSMAP has drawn exactly one "Don't know how to handle namespace"       *)
(* warning.                                                                *)
(***************************************************************************)
UnknownNamespaces ==
    { ElAt(src, q).ns : q \in { r \in PathsIn(src) : ElAt(src, r).kind = "el" } }
    \ ({"", _ns} \cup DOMAIN _NSMAP)

NamespaceWarnings(ns) ==
    Cardinality({ k \in 1..Len(diags) :
                    diags[k].kind = "namespace" /\ diags[k].arg = ns })

C8_OneWarningPerNamespace ==
    status = "done" => \A ns \in UnknownNamespaces : NamespaceWarnings(ns) = 1

(***************************************************************************)
(* C9.  An element without handler.  Its output is el.text, then for each  *)
(* child what converting the child gives followed by the child's tail;     *)
(* empty strings give no node.  Content(out, el, path) says that the node  *)
(* sequence out is such an output: the text nodes made for el itself are   *)
(* the non-empty strings of el.text and the tails, in order, each at its   *)
(* place between the outputs of the children, and every other node comes   *)
(* from the conversion of a child.                                         *)
(***************************************************************************)
\* el.text and the children's tails: the strings concat_into may emit
TextSlots(el) == <<el.text>> \o [i \in 1..Len(el.kids) |-> el.kids[i].tail]

\* the slots that hold a non-empty string, in order
EmittedSlots(el) ==
    SelectSeq([j \in 1..(Len(el.kids) + 1) |-> j],
              LAMBDA j : TextSlots(el)[j] # NoneT /\ TextSlots(el)[j] # <<>>)

OwnText(n, path) == heap[n].klass = "Text" /\ heap[n].org = path

\* how many of out[1..k] are text nodes of the element itself
OwnTextsUpTo(out, path, k) == Cardinality({ j \in 1..k : OwnText(out[j], path) })

\* the place of out[k] in the output: 2i for the output of child i, 2j-1 for
\* the string of slot j (slot 1 is el.text, slot i+1 the tail of child i)
Place(out, el, path, k) ==
    IF OwnText(out[k], path)
    THEN LET m == OwnTextsUpTo(out, path, k)
         IN IF m <= Len(EmittedSlots(el)) THEN 2 * EmittedSlots(el)[m] - 1 ELSE -1
    ELSE IF Len(heap[out[k]].org) > Len(path) /\ IsPrefix(path, heap[out[k]].org)
    THEN 2 * heap[out[k]].org[Len(path) + 1]
    ELSE -1

Content(out, el, path) ==
    /\ OwnTextsUpTo(out, path, Len(out)) = Len(EmittedSlots(el))
    /\ \A k \in 1..Len(out) :
         /\ Place(out, el, path, k) > 0
         /\ k > 1 => Place(out, el, path, k - 1) <= Place(out, el, path, k)
         /\ OwnText(out[k], path) =>
              /\ heap[out[k]].text
                   = TextSlots(el)[EmittedSlots(el)[OwnTextsUpTo(out, path, k)]]
              /\ k > 1 => Place(out, el, path, k - 1) < Place(out, el, path, k)
    /\ \A i \in 1..Len(el.kids) :
         el.kids[i].kind = "el" => \E k \in 1..Len(out) : Place(out, el, path, k) = 2 * i

UnknownTagReturned ==
    /\ returned.now /\ returned.h = "passthrough"
    /\ ElAt(src, returned.path).kind = "el"

OrderedListAncestors(path) ==
    Cardinality({ a \in Ancestors(path) : Dispatch(ElAt(src, a)) = "e_orderedlist" })

C10_ListNumbering ==
    (returned.now /\ returned.h = "e_orderedlist") =>
        /\ heap[returned.node].klass = "enumerated_list"
        /\ heap[returned.node].att
             = IF OrderedListAncestors(returned.path) = 0 THEN "arabic" ELSE "loweralpha"
        /\ returned.old = returned.entry.old
        /\ ordered_list_depth = OrderedListAncestors(returned.path)

\* a list nested in two other ordered lists has returned, after a sibling list
C10_Witness ==
    /\ returned.now /\ returned.h = "e_orderedlist"
    /\ OrderedListAncestors(returned.path) = 2
    /\ heap[returned.node].att = "loweralpha"
    /\ returned.path[Len(returned.path)] = 2

(***************************************************************************)
(* What an assembly document says, read off its source.                    *)
(***************************************************************************)
\* the resources a document declares: id -> document
Declared(doc) ==
    LET rs == UNION {{r \in {doc.kids[i].kids[j] : j \in DOMAIN doc.kids[i].kids} :
                         r.tag = "resource"} :
                     i \in {i \in DOMAIN doc.kids : doc.kids[i].tag = "resources"}}
    IN [id \in {r.id : r \in rs} |-> (CHOOSE r \in rs : r.id = id).fileref]

IsComposition(el) == el.kind = "el" /\ el.ns = DOCBOOK /\ el.tag \in {"structure", "module"}

\* the top-level composition nodes of a document, in document order
TopComposition(doc) == SelectSeq(doc.kids, IsComposition)

\* a composition node whose resourceref the document does not declare
Dangling(f) == IsComposition(f.el) /\ f.el.resourceref \notin DOMAIN Declared(src)

\* C3: purge(d) removes from the graph exactly the edges keyed by d, with
\* d's root and top-resource registration, and leaves every edge keyed by
\* another document as it was, edges whose child is d included.
C3_PurgeRemovesOwnEdges ==
    \A i \in DOMAIN hist :
        LET e == hist[i] IN
        (e.op = "purge" /\ ~e.raised) =>
            /\ \A k \in DOMAIN e.before.children \ {e.doc} :
                  /\ k \in DOMAIN e.after.children
                  /\ e.after.children[k] = e.before.children[k]
            /\ e.doc \in DOMAIN e.after.children => e.after.children[e.doc] = <<>>
            /\ e.doc \notin DOMAIN e.after.assemblies
            /\ \A k \in DOMAIN e.before.assemblies \ {e.doc} :
                  /\ k \in DOMAIN e.after.assemblies
                  /\ e.after.assemblies[k] = e.before.assemblies[k]
            /\ e.after.roots =
                  IF e.doc \in DOMAIN e.before.assemblies
                  THEN e.before.roots \ {e.before.assemblies[e.doc]}
                  ELSE e.before.roots

\* C4: convert(d); purge(d); convert(d) of an unchanged assembly document
\* leaves the graph (edge lists, roots, top-resource map) as it was after
\* the first convert(d).
C4_ReconvertLeavesGraph ==
    (/\ Len(hist) = 3
     /\ hist[1].op = "convert" /\ hist[2].op = "purge" /\ hist[3].op = "convert"
     /\ hist[2].doc = hist[1].doc /\ hist[3].doc = hist[1].doc
     /\ ~hist[2].raised)
    => hist[3].after = hist[1].after

\* C5: the top resource recorded for a document with top-level composition
\* nodes is the target of the first of them, and after title inheritance
\* the document's title and long title are those of that first child.
C5_TopResourceIsFirstNode ==
    status = "writing" =>
        \A d \in DOMAIN source :
            TopComposition(source[d]) # <<>> =>
                LET first == Declared(source[d])[TopComposition(source[d])[1].resourceref]
                IN /\ d \in DOMAIN assemblies
                   /\ assemblies[d] = first
                   /\ titles[d] = titles[first]

(***************************************************************************)
(* C6.  What replace_placeholders should leave, as values.                 *)
(***************************************************************************)
StoredKids(d) == Value(doctrees[d], 1).kids

\* the first of the nodes vs takes over ids
Carry(vs, ids, withIds) ==
    IF withIds /\ vs # <<>> THEN [vs EXCEPT ![1].ids = append_attr_list(@, ids)]
    ELSE vs

\* vs with every placeholder replaced by the expanded children of its target
RECURSIVE Expand(_, _)
Expand(vs, withIds) ==
    LET F[k \in 0..Len(vs)] ==
            IF k = 0 THEN <<>>
            ELSE F[k - 1] \o
                 (IF vs[k].klass = "resource_placeholder"
                  THEN Carry(Expand(StoredKids(vs[k].att), withIds), vs[k].ids, withIds)
                  ELSE <<[vs[k] EXCEPT !.kids = Expand(@, withIds)]>>)
    IN F[Len(vs)]

\* the placeholders of the document's own tree that were replaced
OwnPlaceholders(r) == SelectSeq(r.log, LAMBDA e : e.depth = 1)

Reach(h, ns) == LET t == traverse_all(h, ns) IN {t[i] : i \in DOMAIN t}

\* no two replacements share a node, none shares a node with a target tree,
\* and every target tree is as it was before its children were copied
NoSharing(r) ==
    LET own == OwnPlaceholders(r) IN
    \A i, j \in DOMAIN own :
        /\ Reach(r.heap, own[i].copies) \cap Reach(r.heap, <<own[j].troot>>) = {}
        /\ i # j => Reach(r.heap, own[i].copies) \cap Reach(r.heap, own[j].copies) = {}
        /\ Value(r.heap, own[i].troot) = own[i].before

NoPlaceholderLeft(r) ==
    \A n \in Reach(r.heap, <<r.root>>) : r.heap[n].klass # "resource_placeholder"

Targets(d) ==
    {doctrees[d][n].att : n \in {n \in Reach(doctrees[d], <<1>>) :
                                    doctrees[d][n].klass = "resource_placeholder"}}

\* replace_placeholders cannot finish on the tree of d: a target is not
\* stored, has nothing to replace the placeholder with, begins with text,
\* or the inclusions do not end
RECURSIVE Fails(_, _)
Fails(d, depth) ==
    \/ depth > MaxRecursion
    \/ \E t \in Targets(d) :
          \/ t \notin DOMAIN doctrees
          \/ Fails(t, depth + 1)
          \/ Expand(StoredKids(t), TRUE) = <<>>
          \/ Expand(StoredKids(t), TRUE)[1].klass = "Text"

C7_DanglingResourceStops ==
    [][(InConv /\ Dangling(Top)) =>
          /\ status' = "error"
          /\ heap' = heap
          /\ children' = children
          /\ assemblies' = assemblies
          /\ roots' = roots]_vars

\* a conversion has stopped at a composition node with a dangling resourceref
C7_Witness ==
    /\ status = "error" /\ frames # <<>>
    /\ Dangling(Top)
    /\ nconv > 0

(***************************************************************************)
(* C11.  Unordered lists.                                                  *)
(***************************************************************************)
IsAlnum(ch) ==
    ch \in {"a", "b", "c", "d", "e", "f", "g", "h", "i", "j", "k", "l", "m", "n",
            "o", "p", "q", "r", "s", "t", "u", "v", "w", "x", "y", "z",
            "A", "B", "C", "D", "E", "F", "G", "H", "I", "J", "K", "L", "M", "N",
            "O", "P", "Q", "R", "S", "T", "U", "V", "W", "X", "Y", "Z",
            "0", "1", "2", "3", "4", "5", "6", "7", "8", "9"}

\* an unordered list whose first item begins with a paragraph has returned
ItemizedReturned ==
    /\ returned.now /\ returned.h = "e_itemizedlist"
    /\ first_item_para(ElAt(src, returned.path)) # <<>>

\* the texts emitted for the first paragraph of the first item
FirstItemTexts ==
    {heap[n].text : n \in {n \in DOMAIN heap :
                             /\ heap[n].klass = "Text"
                             /\ heap[n].org = returned.path \o <<1, 1>>}}

\* C11: the first character of the first item's first paragraph is recorded
\* as the bullet and stripped, with the space after it, if and only if the
\* second character is a space and the first is not alphanumeric; otherwise
\* the list gets the generic bullet and the text is emitted unchanged.
C11_BulletOnlyForGlyph ==
    ItemizedReturned =>
        LET t == first_item_para(ElAt(src, returned.path))[1].text
            glyph == t[2] = " " /\ ~IsAlnum(t[1])
        IN /\ heap[returned.node].att = IF glyph THEN t[1] ELSE "bullet"
           /\ FirstItemTexts = {IF glyph THEN lstrip(Tail(t)) ELSE t}

\* an index term has returned
IndexReturned ==
    /\ returned.now /\ ElAt(src, returned.path).kind = "el"
    /\ ElAt(src, returned.path).tag = "indexterm"

\* the first child of el with this local name, as a sequence of zero or one
Child(el, name) ==
    IF findall(el, NsTag(name)) = <<>> THEN <<>> ELSE <<findall(el, NsTag(name))[1]>>

\* the texts the reference allows for primary p: the single, see and seealso
\* forms where that child is present, the bare primary where none is
ReferenceTexts(el, p) ==
    { <<"<">> \o See \o <<":", " ">> \o p \o <<";", " ">> \o k[1].text \o <<">">> :
        k \in {Child(el, "see")} \ {<<>>} }
    \cup { <<"<">> \o SeeAlso \o <<":", " ">> \o p \o <<";", " ">> \o k[1].text \o <<">">> :
             k \in {Child(el, "seealso")} \ {<<>>} }
    \cup { Single \o <<":", " ">> \o p \o <<";", " ">> \o k[1].text :
             k \in {Child(el, "secondary")} \ {<<>>} }
    \cup (IF Child(el, "see") \o Child(el, "seealso") \o Child(el, "secondary") = <<>>
          THEN {p} ELSE {})

\* C12: an index term without a primary appends no node and gives one
\* diagnostic; with primary P it appends exactly one inline node of class
\* index, holding one text leaf that reads "single: P; S", "<see: P; T>" or
\* "<seealso: P; T>" for the child that is present (P alone with none of
\* them), P being prefixed by "! " when significance is preferred.
C12_IndexEntryText ==
    IndexReturned =>
        LET el == ElAt(src, returned.path)
            pri == Child(el, "primary")
        IN IF pri = <<>>
           THEN /\ Appended = <<>>
                /\ Len(diags) = returned.entry.ndiags + 1
           ELSE /\ Len(Appended) = 1
                /\ heap[Appended[1]].klass = "inline"
                /\ heap[Appended[1]].att = "index"
                /\ Len(heap[Appended[1]].kids) = 1
                /\ heap[heap[Appended[1]].kids[1]].text \in
                       ReferenceTexts(el, IF Lower(el.significance) = "preferred"
                                          THEN <<"!", " ">> \o pri[1].text
                                          ELSE pri[1].text)

\* a variable-list entry or a glossary entry has returned
EntryReturned == returned.now /\ returned.h \in {"e_varlistentry", "e_glossentry"}

\* the classes of the nodes under the node of the call that returned last
KidClasses == [k \in DOMAIN heap[returned.node].kids |->
                 heap[heap[returned.node].kids[k]].klass]

\* how many children of el have one of these local names
Count(el, names) ==
    Cardinality({i \in DOMAIN el.kids : el.kids[i].kind = "el" /\ el.kids[i].tag \in names})

\* C13: an entry with at least one term and exactly one definition gives
\* one term node per term followed by one definition node; any other entry
\* gives a diagnostic and no definition node, and conversion goes on.
C13_DefinitionNeedsRightCounts ==
    EntryReturned =>
        LET el == ElAt(src, returned.path)
            nterm == Count(el, {"term", "glossterm"})
            ndef == Count(el, {"listitem", "glossdef"})
        IN /\ status # "error"
           /\ IF nterm >= 1 /\ ndef = 1
              THEN KidClasses = [k \in 1..nterm |-> "term"] \o <<"definition">>
              ELSE /\ \A k \in DOMAIN KidClasses : KidClasses[k] # "definition"
                   /\ Len(diags) > returned.entry.ndiags

\* the element of this frame is bridged to a role or a directive
Bridged(f) == f.el.kind = "el" /\ Dispatch(f.el) \in {"e_sphinx_role", "e_sphinx_directive"}

\* C14: a failing role or directive does not stop the conversion of the
\* document around it: no conversion is in the error state with the call of
\* _conv for a bridged element still open.
C14_MacroFailureContained ==
    \A k \in DOMAIN frames : Bridged(frames[k]) /\ frames[k].pc = "conv" => status # "error"

(***************************************************************************)
(* C15.  Termination of the conversion.                                    *)
(***************************************************************************)
\* the nesting depths of the calls of _conv on the assembly documents
Depths == 1..MaxDepth

\* C15: every call of _conv returns or raises: a call made at depth k is
\* followed by a state where it has left the stack or the conversion has
\* stopped with an exception.
C15_EveryCallEnds ==
    \A k \in Depths :
        (status = "running" /\ Len(frames) = k /\ Top.pc = "conv")
            ~> (status = "error" \/ Len(frames) < k)

\* document d has been converted and refers to a resource that is document e
RefersTo(d, e) ==
    /\ d \in DOMAIN doctrees
    /\ \E n \in DOMAIN doctrees[d] :
         doctrees[d][n].klass = "resource_placeholder" /\ doctrees[d][n].att = e

\* the documents A and B refer to each other and both have been converted
C15_Witness == status = "idle" /\ RefersTo("A", "B") /\ RefersTo("B", "A")

(***************************************************************************)
(* C16.  The stack of ancestor tags.                                       *)
(***************************************************************************)
\* the tags _conv pushes for the elements from the root down to path
TagsTo(path) ==
    [k \in 1..(Len(path) + 1) |-> Resolve(ElAt(src, SubSeq(path, 1, k - 1))).tag]

\* C16: while a handler is in the loop over the children of an element the
\* stack holds the tags of the elements from the root down to that element,
\* one entry each, and when a call returns the stack is what it was when
\* the call was made.
C16_StackIsSourcePath ==
    /\ InKids => stack = TagsTo(Top.path)
    /\ returned.now => returned.stack = returned.entry.stack

(***************************************************************************)
(* C17.  The one-shot text transform.                                      *)
(***************************************************************************)
\* C17: a text leaf created while a one-shot transform is installed is the
\* leaf the transform is applied to: no leaf reaches the output tree
\* between the installation of a transform and its use.
C17_NextLeafTakesTransform ==
    \A i \in DOMAIN leaves :
        leaves[i].pending # None => leaves[i].applied = leaves[i].pending

(***************************************************************************)
(* C18.  The level of a section.                                           *)
(***************************************************************************)
\* a call of a sectioning handler has returned
SectionReturned == returned.now /\ returned.h \in SectionHandlers

\* C18: when a sectioning handler returns the level is 0, 1, 2, 3 for
\* chapter, sect1, sect2, sect3, the level at entry plus one for section,
\* and the level at entry for topic.
C18_LevelOfSection ==
    SectionReturned =>
        LET tag == ElAt(src, returned.path).tag
            at_entry == returned.entry.level
        IN current_level = CASE tag = "chapter" -> 0
                             [] tag = "sect1" -> 1
                             [] tag = "sect2" -> 2
                             [] tag = "sect3" -> 3
                             [] tag = "section" -> at_entry + 1
                             [] tag = "topic" -> at_entry

(***************************************************************************)
(* C19.  Comments and processing instructions.                             *)
(***************************************************************************)
\* the diagnostics of the call that returned last
DiagsDuring == SubSeq(diags, returned.entry.ndiags + 1, Len(diags))

\* C19: the dispatch of a blank comment appends nothing, logs nothing and
\* leaves the stack and the pending transform as they were; a comment with
\* text appends one comment node; a processing instruction appends nothing
\* and logs one info diagnostic.
C19_CommentsAndInstructions ==
    returned.now =>
        LET el == ElAt(src, returned.path)
        IN /\ (el.kind = "comment" /\ strip(el.text) = <<>>) =>
                 /\ Appended = <<>>
                 /\ DiagsDuring = <<>>
                 /\ stack = returned.entry.stack
                 /\ text_mangle = returned.entry.text_mangle
           /\ (el.kind = "comment" /\ strip(el.text) # <<>>) =>
                 /\ Len(Appended) = 1
                 /\ heap[Appended[1]].klass = "comment"
           /\ el.kind = "pi" =>
                 /\ Appended = <<>>
                 /\ Len(DiagsDuring) = 1
                 /\ DiagsDuring[1].sev = "info"

(***************************************************************************)
(* C20.  Function prototypes.                                              *)
(***************************************************************************)
\* the text of these output nodes and of everything below them, in order
RECURSIVE OutText(_)
OutText(ns) ==
    IF ns = <<>> THEN <<>>
    ELSE (IF heap[Head(ns)].klass = "Text" THEN heap[Head(ns)].text
          ELSE OutText(heap[Head(ns)].kids)) \o OutText(Tail(ns))

\* the text of a source element: its text, then each child and its tail,
\* with the runs of spaces of a parameter collapsed
RECURSIVE SrcText(_)
RECURSIVE SrcKids(_, _)
SrcText(el) ==
    (IF el.text = NoneT THEN <<>>
     ELSE IF el.tag = "parameter" THEN collapse_spaces(el.text) ELSE el.text)
    \o SrcKids(el, 1)

SrcKids(el, i) ==
    IF i > Len(el.kids) THEN <<>>
    ELSE SrcText(el.kids[i])
         \o (IF el.kids[i].tail = NoneT THEN <<>> ELSE el.kids[i].tail)
         \o SrcKids(el, i + 1)

\* the texts of these elements with ", " between them
RECURSIVE Joined(_)
Joined(els) ==
    IF els = <<>> THEN <<>>
    ELSE IF Len(els) = 1 THEN SrcText(els[1])
    ELSE SrcText(els[1]) \o <<",", " ">> \o Joined(Tail(els))

\* a function prototype with a function definition has returned
PrototypeReturned == returned.now /\ returned.h = "e_funcprototype"

\* C20: the output of a function prototype reads: the function definition,
\* "(", the parameter definitions with ", " between them, ")", for every
\* number of parameter definitions, zero included.
C20_PrototypeText ==
    PrototypeReturned =>
        LET el == ElAt(src, returned.path)
        IN OutText(Appended) =
               SrcText(findall(el, NsTag("funcdef"))[1]) \o <<"(">>
               \o Joined(findall(el, NsTag("paramdef"))) \o <<")">>

(***************************************************************************)
(* C21, C22.  Roots and purges.                                            *)
(***************************************************************************)
\* C21: between conversions the roots are the documents that have a top
\* resource registered, that is the referencing documents, never a document
\* that is only referenced.
C21_RootsAreReferencingDocuments ==
    status = "idle" => roots = DOMAIN assemblies

\* C22: no purge raises, whatever conversions and purges came before it.
C22_PurgeNeverRaises ==
    \A i \in DOMAIN hist : hist[i].op = "purge" => ~hist[i].raised

====
